---- MODULE Spec2Model ----
(***************************************************************************)
(* Quadrant grid generation engine of sprite-nyc: the validator of         *)
(* infill_template.py, the generation pipeline of generate_omni.py, the    *)
(* plan-file runner of generate_tiles_omni.py and the spiral planner and   *)
(* unattended runner of auto_generate.py.                                  *)
(***************************************************************************)
EXTENDS Integers, Sequences, FiniteSets, TLC

VARIABLES
    db,        \* quadrants table: (x, y) -> row; its domain is the set of rows
    pc,        \* position of the operation the specification is about
    selected,  \* validator input: list of selected quadrant keys
    errors,    \* validator output: list of violations
    call,      \* the last run_generation_for_quadrants call
    planFile,  \* the JSON plan file on disk (list of steps)
    plan,      \* _run_from_plan: the plan held in memory
    planRead,  \* _run_from_plan: the plan as it was read from the file
    stepIdx,   \* _run_from_plan: loop index (1-based)
    dryRun,    \* --dry-run flag of the running command
    runLog,    \* _run_from_plan: steps handled in this run, in order
    autoSteps, \* auto_generate: the steps planned by plan_generation_steps
    autoIdx,   \* auto_generate: loop index (1-based)
    autoLog,   \* auto_generate: steps handled in this run, in order
    apiKey,    \* auto_generate: whether an API key was given
    maxBatch,  \* auto_generate: --max-batch-size of the run
    coordsIn,  \* spiral_order input: list of coordinates
    rings,     \* spiral_order output: list of rings
    corner,    \* _best_corner_for_single output: (col, row)
    queue,     \* viewer: the client queue, items [id, status]
    nextQueueId, \* viewer: id given to the next queue item
    tasks,     \* viewer: the processQueue calls suspended at an await
    sent,      \* viewer: ids of the generation requests sent, in order
    layout,    \* _compute_2x2_layout output: world (x, y) -> (col, row)
    canvas,    \* create_template_image output: (col, row) -> cell content
    renders,   \* the keys whose row holds a render image
    extracted, \* extract_generated_quadrants output: key -> cell cropped
    argv,      \* command line: the coordinate strings given to main
    dbRead,    \* command line: whether main got as far as the store
    threads    \* viewer server: the handler threads of POST /api/generate

vars == <<db, pc, selected, errors, call, planFile, plan, planRead, stepIdx,
          dryRun,
          runLog, autoSteps, autoIdx, autoLog, apiKey, maxBatch,
          coordsIn, rings, corner, queue, nextQueueId, tasks, sent,
          layout, canvas, renders, extracted, argv, dbRead,
          threads>>

(***************************************************************************)
(* Bounds                                                                  *)
(***************************************************************************)
\* seam specification: the store holds (0..SeamMax) x (0..SeamMax)
SeamMax == 3
\* seam specification: at most this many GENERATED quadrants
SeamMaxGen == 4
\* validator specification: the store holds (0..ValMaxX) x (0..ValMaxY)
ValMaxX == 2
ValMaxY == 1
\* validator specification: at most this many GENERATED quadrants
ValMaxGen == 2
\* validator specification: at most this many selected quadrants
MaxSel == 3
\* plan-run specification: the store holds (0..PlanMaxX) x (0..PlanMaxY)
PlanMaxX == 1
PlanMaxY == 1
\* strip specification: the store holds (0..StripMaxX) x (0..StripMaxY), at
\* most StripMaxGen of them generated
StripMaxX == 4
StripMaxY == 4
StripMaxGen == 1
\* store specification: the store holds the row (0..StoreMaxX) x {0}
StoreMaxX == 3
\* command-line specification: coordinate strings of at most CliMaxLen
\* characters
CliMaxLen == 4
\* tile-grid specification: grids of at most BatchMaxRows x BatchMaxCols tiles
BatchMaxRows == 7
BatchMaxCols == 7
\* server specification: the store holds (0..ServerMaxX) x {0}
ServerMaxX == 2
\* pipeline specification: at most PipeMaxGen quadrants generated
PipeMaxGen == 2
\* template specification: at most TplMaxGen quadrants generated, at most
\* TplMaxMissing rows without a render
TplMaxGen == 2
TplMaxMissing == 1
\* corner specification: the store holds (0..CornerMax) x (0..CornerMax),
\* at most CornerMaxGen quadrants generated
CornerMax == 2
CornerMaxGen == 3
\* queue specification: at most QueueMaxItems items are ever enqueued, at
\* most QueueMaxClick by one click
QueueMaxItems == 4
QueueMaxClick == 2
\* auto-run specification: the store holds (0..AutoMax) x (0..AutoMax), at
\* most AutoMaxGen of them generated before the run
AutoMax == 2
AutoMaxGen == 1
\* spiral specification: coordinates are drawn from
\* (-1..SpiralMaxX) x (0..SpiralMaxY)
SpiralMaxX == 1
SpiralMaxY == 2

(***************************************************************************)
(* Generic helpers                                                         *)
(***************************************************************************)
Range(s) == {s[i] : i \in 1..Len(s)}

Reverse(s) == [i \in 1..Len(s) |-> s[Len(s) + 1 - i]]

Min(S) == CHOOSE m \in S : \A n \in S : m <= n

Max(S) == CHOOSE m \in S : \A n \in S : m >= n

Abs(n) == IF n < 0 THEN -n ELSE n

Front(s) == SubSeq(s, 1, Len(s) - 1)

\* list of the elements of a set of coordinates, ordered by (y, x)
RECURSIVE SortedYX(_)
SortedYX(S) ==
    IF S = {} THEN <<>>
    ELSE LET m == CHOOSE c \in S : \A d \in S :
                      \/ c[2] < d[2]
                      \/ c[2] = d[2] /\ c[1] <= d[1]
         IN <<m>> \o SortedYX(S \ {m})

(***************************************************************************)
(* infill_template.py: grid model                                          *)
(***************************************************************************)
EMPTY == "empty"
GENERATED == "generated"

\* grid.get(key) followed by "nb and nb.state == QuadrantState.GENERATED"
IsGenerated(grid, key) == key \in DOMAIN grid /\ grid[key] = GENERATED

cardinal_neighbor_keys(q) ==
    << <<q[1], q[2] - 1>>, <<q[1], q[2] + 1>>,
       <<q[1] - 1, q[2]>>, <<q[1] + 1, q[2]>> >>

neighbor_keys(q) ==
    cardinal_neighbor_keys(q) \o
    << <<q[1] - 1, q[2] - 1>>, <<q[1] + 1, q[2] - 1>>,
       <<q[1] - 1, q[2] + 1>>, <<q[1] + 1, q[2] + 1>> >>

(***************************************************************************)
(* infill_template.py: validation                                          *)
(***************************************************************************)
\* _has_generated_on_side with the bottom row taken from min_y
HasGeneratedOnSideFromMinY(grid, side, bbox) ==
    CASE side = "top" ->
            \E x \in bbox[1]..bbox[3] : IsGenerated(grid, <<x, bbox[2] - 1>>)
      [] side = "bottom" ->
            \E x \in bbox[1]..bbox[3] : IsGenerated(grid, <<x, bbox[2] + 1>>)
      [] side = "left" ->
            \E y \in bbox[2]..bbox[4] : IsGenerated(grid, <<bbox[1] - 1, y>>)
      [] side = "right" ->
            \E y \in bbox[2]..bbox[4] : IsGenerated(grid, <<bbox[3] + 1, y>>)
      [] OTHER -> FALSE

\* bbox is <<min_x, min_y, max_x, max_y>>
_has_generated_on_side(grid, side, bbox) ==
    CASE side = "top" ->
            \E x \in bbox[1]..bbox[3] : IsGenerated(grid, <<x, bbox[2] - 1>>)
      [] side = "bottom" ->
            \E x \in bbox[1]..bbox[3] : IsGenerated(grid, <<x, bbox[4] + 1>>)
      [] side = "left" ->
            \E y \in bbox[2]..bbox[4] : IsGenerated(grid, <<bbox[1] - 1, y>>)
      [] side = "right" ->
            \E y \in bbox[2]..bbox[4] : IsGenerated(grid, <<bbox[3] + 1, y>>)
      [] OTHER -> FALSE

Sides == <<"top", "bottom", "left", "right">>

Violation(rule, q) == [rule |-> rule, q |-> q]

\* the 2x2 branch looking at the top and bottom sides only
SeamErrors2x2TopBottom(grid, bbox, i) ==
    (IF _has_generated_on_side(grid, "top", bbox)
     THEN << Violation("seam_2x2", <<"top">>) >> ELSE <<>>)
    \o (IF _has_generated_on_side(grid, "bottom", bbox)
        THEN << Violation("seam_2x2", <<"bottom">>) >> ELSE <<>>)

\* the errors appended by the "for side in (...)" loop of the 2x2 branch
RECURSIVE SeamErrors2x2(_, _, _)
SeamErrors2x2(grid, bbox, i) ==
    IF i > Len(Sides) THEN <<>>
    ELSE (IF _has_generated_on_side(grid, Sides[i], bbox)
          THEN << Violation("seam_2x2", <<Sides[i]>>) >>
          ELSE <<>>)
         \o SeamErrors2x2(grid, bbox, i + 1)

validate_seam_rules(sel, grid) ==
    IF sel = <<>> THEN <<>>
    ELSE
    LET xs == {sel[i][1] : i \in 1..Len(sel)}
        ys == {sel[i][2] : i \in 1..Len(sel)}
        min_x == Min(xs)
        max_x == Max(xs)
        min_y == Min(ys)
        max_y == Max(ys)
        w == max_x - min_x + 1
        h == max_y - min_y + 1
        bbox == <<min_x, min_y, max_x, max_y>>
        gen_sides == Cardinality({i \in 1..Len(Sides) :
                         _has_generated_on_side(grid, Sides[i], bbox)})
    IN  IF w > 2 \/ h > 2 THEN << Violation("size", <<w, h>>) >>
        ELSE IF Len(sel) # w * h THEN << Violation("not_rectangular", <<>>) >>
        ELSE IF w = 1 /\ h = 1 THEN
            IF gen_sides >= 4 THEN << Violation("seam_1x1", <<>>) >> ELSE <<>>
        ELSE IF w = 1 /\ h = 2 THEN
            IF /\ _has_generated_on_side(grid, "left", bbox)
               /\ _has_generated_on_side(grid, "right", bbox)
            THEN << Violation("seam_1x2", <<>>) >> ELSE <<>>
        ELSE IF w = 2 /\ h = 1 THEN
            IF /\ _has_generated_on_side(grid, "top", bbox)
               /\ _has_generated_on_side(grid, "bottom", bbox)
            THEN << Violation("seam_2x1", <<>>) >> ELSE <<>>
        ELSE IF w = 2 /\ h = 2 THEN SeamErrors2x2(grid, bbox, 1)
        ELSE <<>>

\* RegenErrors with rule 3 dropped
RegenErrorsNone(sel, grid, i) == <<>>

\* the "for q in selected" loop of rule 3 (no re-generation)
RECURSIVE RegenErrors(_, _, _)
RegenErrors(sel, grid, i) ==
    IF i > Len(sel) THEN <<>>
    ELSE (IF grid[sel[i]] = GENERATED
          THEN << Violation("already_generated", sel[i]) >>
          ELSE <<>>)
         \o RegenErrors(sel, grid, i + 1)

\* FloodDeltas with the diagonal offsets added
FloodDeltasDiagonal ==
    << <<-1, 0>>, <<1, 0>>, <<0, -1>>, <<0, 1>>,
       <<-1, -1>>, <<1, -1>>, <<-1, 1>>, <<1, 1>> >>

\* neighbour offsets of the flood fill, in the order the code visits them
FloodDeltas == << <<-1, 0>>, <<1, 0>>, <<0, -1>>, <<0, 1>> >>

\* the neighbours pushed for one popped key
RECURSIVE FloodPush(_, _, _, _)
FloodPush(current, keys, visited, i) ==
    IF i > Len(FloodDeltas) THEN <<>>
    ELSE LET nb == <<current[1] + FloodDeltas[i][1],
                     current[2] + FloodDeltas[i][2]>>
         IN (IF nb \in keys /\ nb \notin visited THEN <<nb>> ELSE <<>>)
            \o FloodPush(current, keys, visited, i + 1)

\* the "while stack" loop of rule 1: returns the visited set
RECURSIVE FloodFill(_, _, _)
FloodFill(stack, visited, keys) ==
    IF stack = <<>> THEN visited
    ELSE LET current == stack[Len(stack)]
             rest == Front(stack)
         IN IF current \in visited THEN FloodFill(rest, visited, keys)
            ELSE FloodFill(rest \o FloodPush(current, keys,
                                             visited \cup {current}, 1),
                           visited \cup {current}, keys)

ConnectErrors(sel) ==
    IF Len(sel) > 1 /\ FloodFill(<<sel[1]>>, {}, Range(sel)) # Range(sel)
    THEN << Violation("not_connected", <<>>) >>
    ELSE <<>>

\* NeighborErrors looking at all 8 neighbours
NeighborErrorsEight(sel, grid) ==
    LET has_any_generated == \E k \in DOMAIN grid : grid[k] = GENERATED
        has_generated_neighbor ==
            \E i \in 1..Len(sel) : \E j \in 1..8 :
                IsGenerated(grid, neighbor_keys(sel[i])[j])
    IN IF has_any_generated /\ ~has_generated_neighbor
       THEN << Violation("no_generated_neighbor", <<>>) >>
       ELSE <<>>

NeighborErrors(sel, grid) ==
    LET has_any_generated == \E k \in DOMAIN grid : grid[k] = GENERATED
        has_generated_neighbor ==
            \E i \in 1..Len(sel) : \E j \in 1..4 :
                IsGenerated(grid, cardinal_neighbor_keys(sel[i])[j])
    IN IF has_any_generated /\ ~has_generated_neighbor
       THEN << Violation("no_generated_neighbor", <<>>) >>
       ELSE <<>>

\* validate_generation_config returning at the first rule that fails
ValidateShortCircuit(sel, grid) ==
    IF sel = <<>> THEN << Violation("none_selected", <<>>) >>
    ELSE IF RegenErrors(sel, grid, 1) # <<>> THEN RegenErrors(sel, grid, 1)
    ELSE IF ConnectErrors(sel) # <<>> THEN ConnectErrors(sel)
    ELSE IF NeighborErrors(sel, grid) # <<>> THEN NeighborErrors(sel, grid)
    ELSE validate_seam_rules(sel, grid)

\* sel: list of keys of the grid (the callers build it from the grid rows)
validate_generation_config(sel, grid) ==
    IF sel = <<>> THEN << Violation("none_selected", <<>>) >>
    ELSE RegenErrors(sel, grid, 1)
         \o ConnectErrors(sel)
         \o NeighborErrors(sel, grid)
         \o validate_seam_rules(sel, grid)

(***************************************************************************)
(* generate_omni.py: store access and the generation pipeline              *)
(***************************************************************************)
Row(gen) == [is_generated |-> gen, generation |-> gen]

load_grid_from_db(d) ==
    [k \in DOMAIN d |-> IF d[k].is_generated THEN GENERATED ELSE EMPTY]

\* save_generation_to_db with the row to the right in its WHERE clause
SaveGenerationNextRow(d, k) ==
    [d EXCEPT ![<<k[1] + 1, k[2]>>] =
        [is_generated |-> TRUE, generation |-> TRUE]]

\* UPDATE quadrants SET generation = ?, ..., is_generated = 1 WHERE x, y
save_generation_to_db(d, k) ==
    [d EXCEPT ![k] = [is_generated |-> TRUE, generation |-> TRUE]]

RECURSIVE SaveAll(_, _, _)
SaveAll(d, sel, i) ==
    IF i > Len(sel) THEN d
    ELSE SaveAll(IF sel[i] \in DOMAIN d
                 THEN save_generation_to_db(d, sel[i]) ELSE d,
                 sel, i + 1)

\* the saves of a batch whose k-th save raises, rolled back
SaveUntilRollback(d, sel, k) == d

\* lines 291-293 when the k-th save raises: the saves before it are
\* committed, each by its own connection
SaveUntil(d, sel, k) == SaveAll(d, SubSeq(sel, 1, k - 1), 1)

\* what the world outside the program decides for one call
Outcomes == {"ok", "upload_error", "api_error"}

\* the failures after the service call: the download, the size check and
\* the k-th save
LateOutcomes ==
    {"download_error", "bad_size", "save_error_1", "save_error_2"}

\* the save the outcome makes fail (0: none)
FailIndex(outcome) ==
    IF outcome = "save_error_1" THEN 1
    ELSE IF outcome = "save_error_2" THEN 2
    ELSE 0

NoCall ==
    [coords |-> <<>>, pre |-> {}, errors |-> <<>>, raised |-> "never",
     message |-> <<>>, service |-> 0, wrote |-> {}]

\* the call after the selection was built: lines 240-295
AfterLookup(d, quadrant_coords, dry_run, outcome, grid, errs) ==
    LET base == [coords |-> quadrant_coords,
                 pre |-> {k \in DOMAIN grid : grid[k] = GENERATED},
                 errors |-> errs,
                 raised |-> "none", message |-> <<>>, service |-> 0,
                 wrote |-> {}]
    IN  IF errs # <<>> THEN
            [call |-> [base EXCEPT !.raised = "invalid", !.message = errs],
             db |-> d]
        ELSE IF dry_run THEN
            [call |-> base, db |-> d]
        ELSE IF outcome = "upload_error" THEN
            [call |-> [base EXCEPT !.raised = "upload"], db |-> d]
        ELSE IF outcome = "api_error" THEN
            [call |-> [base EXCEPT !.raised = "api", !.service = 1], db |-> d]
        ELSE IF outcome = "download_error" THEN
            [call |-> [base EXCEPT !.raised = "download", !.service = 1],
             db |-> d]
        ELSE IF outcome = "bad_size" THEN
            [call |-> [base EXCEPT !.raised = "size", !.service = 1],
             db |-> d]
        ELSE IF FailIndex(outcome) \in 1..Len(quadrant_coords) THEN
            [call |-> [base EXCEPT
                        !.raised = "save", !.service = 1,
                        !.wrote = Range(SubSeq(quadrant_coords, 1,
                                               FailIndex(outcome) - 1))],
             db |-> SaveUntil(d, quadrant_coords, FailIndex(outcome))]
        ELSE
            [call |-> [base EXCEPT !.service = 1,
                                   !.wrote = Range(quadrant_coords)],
             db |-> SaveAll(d, quadrant_coords, 1)]

\* the call once the grid is loaded: lines 232-295
WithGrid(d, quadrant_coords, dry_run, outcome, grid) ==
    IF \E i \in 1..Len(quadrant_coords) : quadrant_coords[i] \notin DOMAIN grid
    THEN [call |-> [coords |-> quadrant_coords,
                    pre |-> {k \in DOMAIN grid : grid[k] = GENERATED},
                    errors |-> <<>>, raised |-> "not_found",
                    message |-> <<>>, service |-> 0, wrote |-> {}],
          db |-> d]
    ELSE AfterLookup(d, quadrant_coords, dry_run, outcome, grid,
                     validate_generation_config(quadrant_coords, grid))

\* one call: the record of what it did and the store it leaves
run_generation_for_quadrants(d, quadrant_coords, dry_run, outcome) ==
    WithGrid(d, quadrant_coords, dry_run, outcome, load_grid_from_db(d))

(***************************************************************************)
(* The other writers of the quadrants table                                *)
(***************************************************************************)
\* delete_generation that clears the image and leaves the flag
DeleteGenerationKeepFlag(d, k) ==
    IF k \in DOMAIN d THEN [d EXCEPT ![k].generation = FALSE] ELSE d

\* view_generations.py do_DELETE: UPDATE quadrants SET generation = NULL,
\* ..., is_generated = 0 WHERE x, y
delete_generation(d, k) ==
    IF k \in DOMAIN d
    THEN [d EXCEPT ![k] = [is_generated |-> FALSE, generation |-> FALSE]]
    ELSE d

\* import_quadrants.py: one file quadrant_<x>_<y>_<column>.png
import_file(d, k, col_name) ==
    IF k \in DOMAIN d /\ col_name = "generation"
    THEN [d EXCEPT ![k] = [is_generated |-> TRUE, generation |-> TRUE]]
    ELSE d

\* replace_color.py process_quadrant_in_db: the image of a generated row is
\* replaced by its recoloured copy
process_quadrant_in_db(d, k, dry_run) ==
    IF k \in DOMAIN d /\ d[k].is_generated /\ d[k].generation /\ ~dry_run
    THEN [d EXCEPT ![k].generation = TRUE]
    ELSE d

(***************************************************************************)
(* auto_generate.py: spiral planner                                        *)
(***************************************************************************)
\* RingPositions with the right edge one column too far
RingPositionsRightOff(cx, cy, r) ==
    [k \in 1..(2 * r + 1) |-> <<cx - r + k - 1, cy - r>>]
    \o [k \in 1..(2 * r) |-> <<cx + r + 1, cy - r + k>>]
    \o [k \in 1..(2 * r) |-> <<cx + r - k, cy + r>>]
    \o [k \in 1..(2 * r - 1) |-> <<cx - r, cy + r - k>>]

\* RingPositions with the bottom edge walked left to right
RingPositionsBottomForward(cx, cy, r) ==
    [k \in 1..(2 * r + 1) |-> <<cx - r + k - 1, cy - r>>]
    \o [k \in 1..(2 * r) |-> <<cx + r, cy - r + k>>]
    \o [k \in 1..(2 * r) |-> <<cx - r + k - 1, cy + r>>]
    \o [k \in 1..(2 * r - 1) |-> <<cx - r, cy + r - k>>]

\* the positions of ring r around (cx, cy), in the order the four edge
\* loops visit them: top, right, bottom, left
RingPositions(cx, cy, r) ==
    [k \in 1..(2 * r + 1) |-> <<cx - r + k - 1, cy - r>>]
    \o [k \in 1..(2 * r) |-> <<cx + r, cy - r + k>>]
    \o [k \in 1..(2 * r) |-> <<cx + r - k, cy + r>>]
    \o [k \in 1..(2 * r - 1) |-> <<cx - r, cy + r - k>>]

\* the ring built by one iteration of "for r in range(max_radius + 1)"
RingAt(cx, cy, r, coord_set, assigned) ==
    IF r = 0
    THEN (IF <<cx, cy>> \in coord_set THEN << <<cx, cy>> >> ELSE <<>>)
    ELSE LET Keep(pos) == pos \in coord_set /\ pos \notin assigned
         IN SelectSeq(RingPositions(cx, cy, r), Keep)

RECURSIVE SpiralLoop(_, _, _, _, _, _)
SpiralLoop(cx, cy, r, max_radius, coord_set, assigned) ==
    IF r > max_radius THEN <<>>
    ELSE LET ring == RingAt(cx, cy, r, coord_set, assigned)
         IN (IF ring # <<>> THEN <<ring>> ELSE <<>>)
            \o SpiralLoop(cx, cy, r + 1, max_radius, coord_set,
                          assigned \cup Range(ring))

spiral_order(coords) ==
    IF coords = <<>> THEN <<>>
    ELSE LET xs == {coords[i][1] : i \in 1..Len(coords)}
             ys == {coords[i][2] : i \in 1..Len(coords)}
             min_x == Min(xs)
             max_x == Max(xs)
             min_y == Min(ys)
             max_y == Max(ys)
             cx == (min_x + max_x) \div 2
             cy == (min_y + max_y) \div 2
             max_radius == Max({max_x - min_x, max_y - min_y}) + 1
         IN SpiralLoop(cx, cy, 0, max_radius, Range(coords), {})

\* the batches cut from one ring's ungenerated coordinates
RECURSIVE Batches(_, _, _, _)
Batches(ungenerated, i, batch, max_batch_size) ==
    IF i > Len(ungenerated)
    THEN (IF batch # <<>> THEN <<batch>> ELSE <<>>)
    ELSE LET b == Append(batch, ungenerated[i])
         IN IF Len(b) >= max_batch_size
            THEN <<b>> \o Batches(ungenerated, i + 1, <<>>, max_batch_size)
            ELSE Batches(ungenerated, i + 1, b, max_batch_size)

RECURSIVE PlanRings(_, _, _, _)
PlanRings(ringList, i, generated, max_batch_size) ==
    IF i > Len(ringList) THEN <<>>
    ELSE LET NotGen(c) == c \notin generated
             ungenerated == SelectSeq(ringList[i], NotGen)
         IN IF ungenerated = <<>>
            THEN PlanRings(ringList, i + 1, generated, max_batch_size)
            ELSE Batches(ungenerated, 1, <<>>, max_batch_size)
                 \o PlanRings(ringList, i + 1,
                              generated \cup Range(ungenerated),
                              max_batch_size)

\* plan_generation_steps that starts with nothing generated
PlanStepsIgnoreGenerated(coords, grid_states, max_batch_size) ==
    PlanRings(spiral_order(coords), 1, {}, max_batch_size)

plan_generation_steps(coords, grid_states, max_batch_size) ==
    PlanRings(spiral_order(coords), 1,
              {k \in DOMAIN grid_states : grid_states[k] = GENERATED},
              max_batch_size)

\* --max-batch-size default
DefaultBatch == 4

\* the loop after a step that made no call (dry run, or no API key)
\* and after a step whose call returned or raised: "break" on an exception
AutoAfterNoBreak(raised) == "running"

AutoAfter(raised) == IF raised = "none" THEN "running" ELSE "stopped"

(***************************************************************************)
(* make_strip_plan.py: strip planner                                       *)
(***************************************************************************)
\* grid_states.get((x, y), QuadrantState.EMPTY)
StateAt(grid_states, k) ==
    IF k \in DOMAIN grid_states THEN grid_states[k] ELSE EMPTY

\* the "for y in range(min_y, max_y + 1)" loop of one column
RECURSIVE ColQuads(_, _, _, _)
ColQuads(grid_states, x, y, max_y) ==
    IF y > max_y THEN <<>>
    ELSE (IF StateAt(grid_states, <<x, y>>) # GENERATED
          THEN << <<x, y>> >> ELSE <<>>)
         \o ColQuads(grid_states, x, y + 1, max_y)

\* PendingStep with the status of a finished step
PendingStepDone(quads) == [quadrants |-> quads, status |-> "done", error |-> <<>>]

PendingStep(quads) == [quadrants |-> quads, status |-> "pending", error |-> <<>>]

\* the "for i in range(0, len(col_quads), 4)" loop
RECURSIVE Chunks4(_, _)
Chunks4(col_quads, i) ==
    IF i > Len(col_quads) THEN <<>>
    ELSE << PendingStep(SubSeq(col_quads, i, Min({i + 3, Len(col_quads)}))) >>
         \o Chunks4(col_quads, i + 4)

RECURSIVE StripSteps(_, _, _, _, _)
StripSteps(grid_states, x, max_x, min_y, max_y) ==
    IF x > max_x THEN <<>>
    ELSE LET col_quads == ColQuads(grid_states, x, min_y, max_y)
             depth == max_y - min_y + 1
         IN (IF col_quads = <<>> THEN <<>>
             ELSE IF depth <= 3 THEN << PendingStep(col_quads) >>
             ELSE Chunks4(col_quads, 1))
            \o StripSteps(grid_states, x + 1, max_x, min_y, max_y)

WithSteps(top_left, bottom_right, depth, steps) ==
    [top_left |-> top_left, bottom_right |-> bottom_right, depth |-> depth,
     total_steps |-> Len(steps), steps |-> steps]

\* make_strip_plan with the column loop starting one row too low
MakeStripPlanSkipTopRow(grid_states, top_left, bottom_right) ==
    LET min_x == Min({top_left[1], bottom_right[1]})
        max_x == Max({top_left[1], bottom_right[1]})
        min_y == Min({top_left[2], bottom_right[2]})
        max_y == Max({top_left[2], bottom_right[2]})
    IN WithSteps(top_left, bottom_right, max_y - min_y + 1,
                 StripSteps(grid_states, min_x, max_x, min_y + 1, max_y))

make_strip_plan(grid_states, top_left, bottom_right) ==
    LET min_x == Min({top_left[1], bottom_right[1]})
        max_x == Max({top_left[1], bottom_right[1]})
        min_y == Min({top_left[2], bottom_right[2]})
        max_y == Max({top_left[2], bottom_right[2]})
    IN WithSteps(top_left, bottom_right, max_y - min_y + 1,
                 StripSteps(grid_states, min_x, max_x, min_y, max_y))

(***************************************************************************)
(* generate_tiles_omni.py: plan-file runner                                *)
(***************************************************************************)
\* the statuses the loop skips
SkipStatusesDoneOnly == {"done"}

SkipStatuses == {"done", "error"}

\* step["status"] = ... after the try block; str(e) is kept on an error
StepAfter(step, c) ==
    IF c.raised = "none"
    THEN [step EXCEPT !.status = "done"]
    ELSE [step EXCEPT !.status = "error", !.error = <<c.raised>> \o c.message]

LogEntry(i, did, called) == [step |-> i, did |-> did, called |-> called]

(***************************************************************************)
(* generate_omni.py, make_strip_plan.py: parsing of "x,y" strings; a       *)
(* string is a sequence of characters                                      *)
(***************************************************************************)
\* str.strip(): leading and trailing blanks removed
RECURSIVE StripLeft(_)
StripLeft(s) ==
    IF s # <<>> /\ Head(s) = " " THEN StripLeft(Tail(s)) ELSE s

StripText(s) == Reverse(StripLeft(Reverse(StripLeft(s))))

\* str.split(","): the parts between the commas, at least one part
RECURSIVE SplitFrom(_, _, _)
SplitFrom(s, i, part) ==
    IF i > Len(s) THEN <<part>>
    ELSE IF s[i] = "," THEN <<part>> \o SplitFrom(s, i + 1, <<>>)
    ELSE SplitFrom(s, i + 1, Append(part, s[i]))

SplitCommas(s) == SplitFrom(s, 1, <<>>)

IsDigits(s) == s # <<>> /\ \A i \in 1..Len(s) : s[i] \in {"0", "1"}

\* whether int(s) returns: blanks around, an optional sign, digits
IsIntText(s) ==
    LET t == StripText(s)
    IN IF t # <<>> /\ Head(t) = "-" THEN IsDigits(Tail(t)) ELSE IsDigits(t)

RECURSIVE DigitsValue(_)
DigitsValue(s) ==
    IF s = <<>> THEN 0
    ELSE 10 * DigitsValue(SubSeq(s, 1, Len(s) - 1))
         + (IF s[Len(s)] = "1" THEN 1 ELSE 0)

\* int(s) where it returns
IntValue(s) ==
    LET t == StripText(s)
    IN IF Head(t) = "-" THEN 0 - DigitsValue(Tail(t)) ELSE DigitsValue(t)

ParseError(kind) == [ok |-> FALSE, error |-> kind, value |-> <<>>]

Parsed(x, y) == [ok |-> TRUE, error |-> "none", value |-> <<x, y>>]

\* make_strip_plan.py lines 90-92: parts[0] and parts[1] are converted,
\* further parts are not looked at
parse_grid_coord(s) ==
    IF ~IsIntText(SplitCommas(s)[1]) THEN ParseError("ValueError")
    ELSE IF Len(SplitCommas(s)) < 2 THEN ParseError("IndexError")
    ELSE IF ~IsIntText(SplitCommas(s)[2]) THEN ParseError("ValueError")
    ELSE Parsed(IntValue(SplitCommas(s)[1]), IntValue(SplitCommas(s)[2]))

\* generate_omni.py lines 43-48
parse_quadrant_tuple(s) ==
    IF Len(SplitCommas(StripText(s))) # 2 THEN ParseError("ValueError")
    ELSE IF ~IsIntText(SplitCommas(StripText(s))[1]) THEN ParseError("ValueError")
    ELSE IF ~IsIntText(SplitCommas(StripText(s))[2]) THEN ParseError("ValueError")
    ELSE Parsed(IntValue(SplitCommas(StripText(s))[1]),
                IntValue(SplitCommas(StripText(s))[2]))

(***************************************************************************)
(* infill_template.py: the corner of the 2x2 template for a 1x1 selection  *)
(***************************************************************************)
\* the corners in the order of the two for loops: columns outer, rows inner
Corners == << <<0, 0>>, <<0, 1>>, <<1, 0>>, <<1, 1>> >>

\* the score with the weight test made against the window's origin cell
CornerScoreOriginWeights(grid, q, col_off, row_off) ==
    LET Cells == << <<0, 0>>, <<0, 1>>, <<1, 0>>, <<1, 1>> >>
        Weight(dc, dr) ==
            IF dc = col_off /\ dr = row_off THEN 0
            ELSE IF ~IsGenerated(grid, <<q[1] - col_off + dc,
                                         q[2] - row_off + dr>>) THEN 0
            ELSE IF dc = 0 \/ dr = 0 THEN 2
            ELSE 1
    IN Weight(Cells[1][1], Cells[1][2]) + Weight(Cells[2][1], Cells[2][2])
       + Weight(Cells[3][1], Cells[3][2]) + Weight(Cells[4][1], Cells[4][2])

\* the score of one corner: the dc, dr loops of lines 273-285
CornerScore(grid, q, col_off, row_off) ==
    LET Cells == << <<0, 0>>, <<0, 1>>, <<1, 0>>, <<1, 1>> >>
        Weight(dc, dr) ==
            IF dc = col_off /\ dr = row_off THEN 0
            ELSE IF ~IsGenerated(grid, <<q[1] - col_off + dc,
                                         q[2] - row_off + dr>>) THEN 0
            ELSE IF dc = col_off \/ dr = row_off THEN 2
            ELSE 1
    IN Weight(Cells[1][1], Cells[1][2]) + Weight(Cells[2][1], Cells[2][2])
       + Weight(Cells[3][1], Cells[3][2]) + Weight(Cells[4][1], Cells[4][2])

\* the loop over the corners with "score >= best_score"
RECURSIVE BestCornerLastMax(_, _, _, _, _)
BestCornerLastMax(q, grid, i, best_corner, best_score) ==
    IF i > Len(Corners) THEN best_corner
    ELSE IF CornerScore(grid, q, Corners[i][1], Corners[i][2])
            >= best_score
    THEN BestCornerLastMax(q, grid, i + 1, Corners[i],
             CornerScore(grid, q, Corners[i][1], Corners[i][2]))
    ELSE BestCornerLastMax(q, grid, i + 1, best_corner, best_score)

\* the loop over the corners from the i-th on: lines 270-286
RECURSIVE BestCornerFrom(_, _, _, _, _)
BestCornerFrom(q, grid, i, best_corner, best_score) ==
    IF i > Len(Corners) THEN best_corner
    ELSE IF CornerScore(grid, q, Corners[i][1], Corners[i][2])
            > best_score
    THEN BestCornerFrom(q, grid, i + 1, Corners[i],
             CornerScore(grid, q, Corners[i][1], Corners[i][2]))
    ELSE BestCornerFrom(q, grid, i + 1, best_corner, best_score)

_best_corner_for_single(q, grid) ==
    BestCornerFrom(q, grid, 1, <<0, 0>>, -1)

(***************************************************************************)
(* batch_generate.py: the order of the tiles of a rows x cols grid         *)
(***************************************************************************)
\* twice the distance of a row or column index from the center (n - 1) / 2
Twice(i, n) == Abs(2 * i - (n - 1))

\* sort_key without the is_diagonal component
SortKeyRowMajor(rc, rows, cols) ==
    << Max({Twice(rc[1], rows), Twice(rc[2], cols)}), 0, rc[1], rc[2] >>

\* sort_key, lines 51-55, the ring doubled
sort_key(rc, rows, cols) ==
    << Max({Twice(rc[1], rows), Twice(rc[2], cols)}),
       IF Twice(rc[1], rows) > 0 /\ Twice(rc[2], cols) > 0 THEN 1 ELSE 0,
       rc[1], rc[2] >>

\* the order of Python tuples
RECURSIVE TupleLess(_, _)
TupleLess(a, b) ==
    IF a = <<>> \/ b = <<>> THEN a = <<>> /\ b # <<>>
    ELSE IF Head(a) # Head(b) THEN Head(a) < Head(b)
    ELSE TupleLess(Tail(a), Tail(b))

\* coords.sort(key=sort_key): a stable sort, by insertion
RECURSIVE InsertTile(_, _, _, _)
InsertTile(sorted, rc, rows, cols) ==
    IF sorted = <<>> THEN <<rc>>
    ELSE IF TupleLess(sort_key(rc, rows, cols),
                      sort_key(sorted[Len(sorted)], rows, cols))
    THEN Append(InsertTile(Front(sorted), rc, rows, cols),
                sorted[Len(sorted)])
    ELSE Append(sorted, rc)

RECURSIVE SortTiles(_, _, _)
SortTiles(coords, rows, cols) ==
    IF coords = <<>> THEN <<>>
    ELSE InsertTile(SortTiles(Front(coords), rows, cols),
                    coords[Len(coords)], rows, cols)

\* line 45: (r, c) for r in range(rows) for c in range(cols)
RowMajor(rows, cols) ==
    [i \in 1..(rows * cols) |-> <<(i - 1) \div cols, (i - 1) % cols>>]

_spiral_order(rows, cols) ==
    IF rows * cols = 0 THEN <<>>
    ELSE SortTiles(RowMajor(rows, cols), rows, cols)

(***************************************************************************)
(* infill_template.py: the 2x2 layout and the template canvas              *)
(***************************************************************************)
\* the layout with (dr, dc) stored in place of (dc, dr)
BlockTransposed(ox, oy) ==
    [k \in {<<ox + dc, oy + dr>> : dc \in 0..1, dr \in 0..1} |->
        <<k[2] - oy, k[1] - ox>>]

\* the layout of the window with origin (ox, oy): lines 313-315
Block(ox, oy) ==
    [k \in {<<ox + dc, oy + dr>> : dc \in 0..1, dr \in 0..1} |->
        <<k[1] - ox, k[2] - oy>>]

\* the score of a strip beside the selection: 2 for each GENERATED cell
StripScore(grid, cells) ==
    2 * Cardinality({c \in cells : IsGenerated(grid, c)})

\* the tall and wide branches with "score >= best_score"
BestOffsetLast(score0, score1) == IF score1 >= score0 THEN 1 ELSE 0

\* the loops over (0, 1) of lines 321-334 and 342-355: the first offset
\* with the larger score
BestOffset(score0, score1) == IF score1 > score0 THEN 1 ELSE 0

_compute_2x2_layout(sel, grid) ==
    LET min_x == Min({sel[i][1] : i \in 1..Len(sel)})
        max_x == Max({sel[i][1] : i \in 1..Len(sel)})
        min_y == Min({sel[i][2] : i \in 1..Len(sel)})
        max_y == Max({sel[i][2] : i \in 1..Len(sel)})
        w == max_x - min_x + 1
        h == max_y - min_y + 1
    IN IF w = 1 /\ h = 1
       THEN Block(sel[1][1] - _best_corner_for_single(sel[1], grid)[1],
                  sel[1][2] - _best_corner_for_single(sel[1], grid)[2])
       ELSE IF w = 1 /\ h = 2
       THEN Block(min_x - BestOffset(
                     StripScore(grid, {<<min_x + 1, min_y>>,
                                       <<min_x + 1, min_y + 1>>}),
                     StripScore(grid, {<<min_x - 1, min_y>>,
                                       <<min_x - 1, min_y + 1>>})),
                  min_y)
       ELSE IF w = 2 /\ h = 1
       THEN Block(min_x,
                  min_y - BestOffset(
                     StripScore(grid, {<<min_x, min_y + 1>>,
                                       <<min_x + 1, min_y + 1>>}),
                     StripScore(grid, {<<min_x, min_y - 1>>,
                                       <<min_x + 1, min_y - 1>>})))
       ELSE IF w = 2 /\ h = 2
       THEN Block(min_x, min_y)
       ELSE <<>>

\* the cells of the canvas
Cells == (0..1) \X (0..1)

Background == [art |-> "background", border |-> FALSE]

\* one pass of the loop with the border drawn inside "if render:"
TemplateCellBorderWithRender(k, selected_keys, grid, images, render_lookup) ==
    IF k \in selected_keys
    THEN [art |-> IF k \in render_lookup THEN "render" ELSE "background",
          border |-> k \in render_lookup]
    ELSE [art |-> IF IsGenerated(grid, k) /\ k \in images
                  THEN "generated" ELSE "background",
          border |-> FALSE]

\* one pass of the loop of lines 397-419: what the cell of world_key k holds
TemplateCell(k, selected_keys, grid, images, render_lookup) ==
    IF k \in selected_keys
    THEN [art |-> IF k \in render_lookup THEN "render" ELSE "background",
          border |-> TRUE]
    ELSE [art |-> IF IsGenerated(grid, k) /\ k \in images
                  THEN "generated" ELSE "background",
          border |-> FALSE]

\* images: the keys of the grid whose QuadrantPosition has an image
create_template_image(sel, grid, images, render_lookup) ==
    IF sel = <<>>
    THEN [raised |-> "ValueError", template |-> <<>>, layout |-> <<>>]
    ELSE LET lay == _compute_2x2_layout(sel, grid)
         IN [raised |-> "none",
             template |->
                [c \in Cells |->
                    IF \E k \in DOMAIN lay : lay[k] = c
                    THEN TemplateCell(CHOOSE k \in DOMAIN lay : lay[k] = c,
                                      Range(sel), grid, images, render_lookup)
                    ELSE Background],
             layout |-> lay]

\* load_grid_from_db lines 108-110: the rows whose generation blob is set
GridImages(d) == {k \in DOMAIN d : d[k].generation}

\* extract_generated_quadrants: the cell each selected quadrant is cropped
\* from; KeyError when a selected key is not in the layout
extract_generated_quadrants(sel, lay) ==
    IF \E i \in 1..Len(sel) : sel[i] \notin DOMAIN lay
    THEN [raised |-> "KeyError", results |-> <<>>]
    ELSE [raised |-> "none",
          results |-> [k \in Range(sel) |-> lay[k]]]

(***************************************************************************)
(* view_generations.py: the client queue of the viewer page                *)
(***************************************************************************)
\* queue.find(i => i.status === st): index of the first such item, 0 if none
FirstWith(q, st) ==
    IF \E i \in 1..Len(q) : q[i].status = st
    THEN Min({i \in 1..Len(q) : q[i].status = st})
    ELSE 0

\* the items pushed by one click: ids from next on
RECURSIVE Enqueue(_, _, _)
Enqueue(q, next, n) ==
    IF n = 0 THEN q
    ELSE Enqueue(Append(q, [id |-> next, status |-> "queued"]),
                 next + 1, n - 1)

\* processQueue that also returns when an item is in error
ProcessQueueStopOnError(q, ts, sn) ==
    IF FirstWith(q, "processing") # 0 \/ FirstWith(q, "error") # 0
    THEN [queue |-> q, tasks |-> ts, sent |-> sn]
    ELSE IF FirstWith(q, "queued") = 0
    THEN [queue |-> q, tasks |-> ts, sent |-> sn]
    ELSE [queue |-> [q EXCEPT ![FirstWith(q, "queued")].status = "processing"],
          tasks |-> ts \cup {[at |-> "fetch",
                              id |-> q[FirstWith(q, "queued")].id]},
          sent |-> Append(sn, q[FirstWith(q, "queued")].id)]

\* processQueue without the test for an item in processing
ProcessQueueNoGuard(q, ts, sn) ==
    IF FirstWith(q, "queued") = 0
    THEN [queue |-> q, tasks |-> ts, sent |-> sn]
    ELSE [queue |-> [q EXCEPT ![FirstWith(q, "queued")].status = "processing"],
          tasks |-> ts \cup {[at |-> "fetch",
                              id |-> q[FirstWith(q, "queued")].id]},
          sent |-> Append(sn, q[FirstWith(q, "queued")].id)]

\* processQueue up to its first await: lines 1080-1091
processQueue(q, ts, sn) ==
    IF FirstWith(q, "processing") # 0
    THEN [queue |-> q, tasks |-> ts, sent |-> sn]
    ELSE IF FirstWith(q, "queued") = 0
    THEN [queue |-> q, tasks |-> ts, sent |-> sn]
    ELSE [queue |-> [q EXCEPT ![FirstWith(q, "queued")].status = "processing"],
          tasks |-> ts \cup {[at |-> "fetch",
                              id |-> q[FirstWith(q, "queued")].id]},
          sent |-> Append(sn, q[FirstWith(q, "queued")].id)]

\* next.status = ... on the item object, wherever it is in the array
SetStatus(q, id, st) ==
    [i \in 1..Len(q) |-> IF q[i].id = id THEN [q[i] EXCEPT !.status = st]
                         ELSE q[i]]

(***************************************************************************)
(* Values of the variables a specification does not use                    *)
(***************************************************************************)
IdleRun ==
    /\ planFile = <<>> /\ plan = <<>> /\ planRead = <<>>
    /\ stepIdx = 0 /\ runLog = <<>>

IdleAuto ==
    /\ autoSteps = <<>> /\ autoIdx = 0 /\ autoLog = <<>> /\ apiKey = FALSE
    /\ maxBatch = 0

IdleSpiral == coordsIn = <<>> /\ rings = <<>>

IdleLayout ==
    /\ corner = <<>> /\ layout = <<>> /\ canvas = <<>> /\ renders = {}
    /\ extracted = <<>>

IdleCli == argv = <<>> /\ dbRead = FALSE

IdleServer == threads = <<>>

IdleQueue == queue = <<>> /\ nextQueueId = 0 /\ tasks = {} /\ sent = <<>>

IdleValidate == selected = <<>> /\ errors = <<>>

RunVars == <<planFile, plan, planRead, stepIdx, runLog>>

AutoVars == <<autoSteps, autoIdx, autoLog, apiKey, maxBatch>>

SpiralVars == <<coordsIn, rings>>

LayoutVars == <<corner, layout, canvas, renders, extracted>>

CliVars == <<argv, dbRead>>

ServerVars == <<threads>>

QueueVars == <<queue, nextQueueId, tasks, sent>>

\* the subsets of K of at most n elements
RECURSIVE SubsetsUpTo(_, _)
SubsetsUpTo(K, n) ==
    IF n = 0 THEN {{}}
    ELSE LET P == SubsetsUpTo(K, n - 1)
         IN P \cup {S \cup {k} : S \in P, k \in K}

\* the stores with rows for every key of K, at most n of them generated
Stores(K, n) == {[k \in K |-> Row(k \in G)] : G \in SubsetsUpTo(K, n)}

(***************************************************************************)
(* Specification SpecSeam: validate_seam_rules on rectangular selections   *)
(***************************************************************************)
SeamCoords == (0..SeamMax) \X (0..SeamMax)

\* top-left corners of the selected boxes: at the grid's edge and inside it
BoxOrigins == {<<0, 0>>, <<1, 1>>}

InitSeam ==
    /\ db \in Stores(SeamCoords, SeamMaxGen)
    /\ pc = "input"
    /\ call = NoCall /\ dryRun = FALSE
    /\ IdleValidate /\ IdleRun /\ IdleAuto /\ IdleSpiral
    /\ IdleLayout /\ IdleQueue /\ IdleCli /\ IdleServer

ApplySeamRules ==
    /\ pc = "input"
    /\ \E o \in BoxOrigins, w \in 1..2, h \in 1..2 :
        selected' = SortedYX((o[1]..(o[1] + w - 1)) \X (o[2]..(o[2] + h - 1)))
    /\ errors' = validate_seam_rules(selected', load_grid_from_db(db))
    /\ pc' = "seam_checked"
    /\ UNCHANGED <<db, call, dryRun, RunVars, AutoVars, SpiralVars, LayoutVars, QueueVars,
                   CliVars, ServerVars>>

NextSeam == ApplySeamRules

SpecSeam == InitSeam /\ [][NextSeam]_vars

(***************************************************************************)
(* Specification SpecValidate: one dry-run run_generation_for_quadrants    *)
(* call (generate_tiles_omni --dry-run) on any store and any selection     *)
(***************************************************************************)
ValCoords == (0..ValMaxX) \X (0..ValMaxY)

\* a key with no row in the store
MissingKey == <<ValMaxX + 1, 0>>

InitValidate ==
    /\ db \in Stores(ValCoords, ValMaxGen)
    /\ pc = "input"
    /\ call = NoCall /\ dryRun = FALSE
    /\ IdleValidate /\ IdleRun /\ IdleAuto /\ IdleSpiral
    /\ IdleLayout /\ IdleQueue /\ IdleCli /\ IdleServer

\* the selections: up to MaxSel distinct keys, in (y, x) order or reversed,
\* and selections naming a key that has no row
Selections ==
    LET Sets == {S \in SUBSET ValCoords : Cardinality(S) <= MaxSel}
    IN {SortedYX(S) : S \in Sets} \cup {Reverse(SortedYX(S)) : S \in Sets}
       \cup {<<MissingKey>>} \cup {<<c, MissingKey>> : c \in ValCoords}

CallGeneration ==
    /\ pc = "input"
    /\ \E sel \in Selections :
        /\ selected' = sel
        /\ \E r \in {run_generation_for_quadrants(db, sel, TRUE, "ok")} :
              /\ errors' = r.call.errors
              /\ call' = r.call
              /\ db' = r.db
    /\ dryRun' = TRUE
    /\ pc' = "called"
    /\ UNCHANGED <<RunVars, AutoVars, SpiralVars, LayoutVars, QueueVars,
                   CliVars, ServerVars>>

NextValidate == CallGeneration

SpecValidate == InitValidate /\ [][NextValidate]_vars

(***************************************************************************)
(* Vocabulary of the properties                                            *)
(***************************************************************************)
Adjacent(a, b) == Abs(a[1] - b[1]) + Abs(a[2] - b[2]) = 1

\* S splits into two non-empty parts with no 4-adjacent pair across them
Disconnected(S) ==
    \E T \in SUBSET S :
        /\ T # {} /\ T # S
        /\ \A a \in T, b \in S \ T : ~Adjacent(a, b)

HasRule(errs, rules) == \E i \in 1..Len(errs) : errs[i].rule \in rules

SeamRules == {"seam_1x1", "seam_1x2", "seam_2x1", "seam_2x2"}

BoxW(S) == Max({c[1] : c \in S}) - Min({c[1] : c \in S}) + 1

BoxH(S) == Max({c[2] : c \in S}) - Min({c[2] : c \in S}) + 1

\* a side of the bounding box of S is covered: a cell immediately outside
\* it is generated
Covered(S, gen, side) ==
    LET x0 == Min({c[1] : c \in S})
        x1 == Max({c[1] : c \in S})
        y0 == Min({c[2] : c \in S})
        y1 == Max({c[2] : c \in S})
    IN \E g \in gen :
        CASE side = "top" -> g[2] = y0 - 1 /\ g[1] >= x0 /\ g[1] <= x1
          [] side = "bottom" -> g[2] = y1 + 1 /\ g[1] >= x0 /\ g[1] <= x1
          [] side = "left" -> g[1] = x0 - 1 /\ g[2] >= y0 /\ g[2] <= y1
          [] side = "right" -> g[1] = x1 + 1 /\ g[2] >= y0 /\ g[2] <= y1

\* the documented side-coverage thresholds for a filled box of shape w x h
SeamThreshold(S, gen) ==
    LET w == BoxW(S)
        h == BoxH(S)
        top == Covered(S, gen, "top")
        bottom == Covered(S, gen, "bottom")
        left == Covered(S, gen, "left")
        right == Covered(S, gen, "right")
    IN CASE w = 1 /\ h = 1 -> top /\ bottom /\ left /\ right
         [] w = 1 /\ h = 2 -> left /\ right
         [] w = 2 /\ h = 1 -> top /\ bottom
         [] w = 2 /\ h = 2 -> top \/ bottom \/ left \/ right
         [] OTHER -> FALSE

StoreGenerated == {k \in DOMAIN db : db[k].is_generated}

\* C1: for a selection that exactly fills a 1x1, 1x2, 2x1 or 2x2 box,
\* validate_seam_rules reports a violation exactly when the side coverage
\* reaches the shape's threshold (1x1: all four sides; 1x2: left and right;
\* 2x1: top and bottom; 2x2: any side)
SeamRulesMatchThresholds ==
    pc = "seam_checked" =>
        ((errors # <<>>) <=> SeamThreshold(Range(selected), StoreGenerated))

\* a 1x1 selection with all four sides covered was rejected
SeamWitness ==
    /\ pc = "seam_checked"
    /\ Len(selected) = 1
    /\ \A i \in 1..4 : Covered(Range(selected), StoreGenerated, Sides[i])
    /\ HasRule(errors, {"seam_1x1"})

\* the validator ran in the last call (every selected key had a row)
Validated == pc = "called" /\ call.raised # "not_found"

NeighborContextBroken(S, gen) ==
    /\ gen # {}
    /\ ~\E c \in S, g \in gen : Adjacent(c, g)

\* C2 as stated: the neighbor-context violation is reported if and only if
\* the grid has a GENERATED quadrant and no selected quadrant has a
\* GENERATED cardinal neighbour, for every selection
NeighborRuleIffAnySelection ==
    Validated =>
        (HasRule(errors, {"no_generated_neighbor"})
            <=> NeighborContextBroken(Range(selected), call.pre))

\* C2 amended: the same equivalence for every non-empty selection; on a
\* grid with no GENERATED quadrant the rule never fires
NeighborRuleIff ==
    /\ (Validated /\ selected # <<>>) =>
        (HasRule(errors, {"no_generated_neighbor"})
            <=> NeighborContextBroken(Range(selected), call.pre))
    /\ (Validated /\ call.pre = {}) =>
        ~HasRule(errors, {"no_generated_neighbor"})

\* the rule fired on a grid with a GENERATED quadrant away from the selection
NeighborRuleWitness ==
    /\ Validated
    /\ selected # <<>>
    /\ call.pre # {}
    /\ HasRule(errors, {"no_generated_neighbor"})
    /\ ~HasRule(errors, {"already_generated", "not_connected"})

\* C3: a selection of two or more quadrants whose coordinates are not one
\* 4-connected component gets a non-empty violation list, which holds the
\* connectivity violation whatever the other rules report
DisconnectedRejected ==
    (Validated /\ Len(selected) >= 2 /\ Disconnected(Range(selected))) =>
        /\ errors # <<>>
        /\ HasRule(errors, {"not_connected"})
        /\ call.raised = "invalid"

\* a disconnected selection that also re-generates a quadrant was rejected
\* for both
DisconnectedWitness ==
    /\ Validated
    /\ Len(selected) >= 2
    /\ Disconnected(Range(selected))
    /\ HasRule(errors, {"not_connected"})
    /\ HasRule(errors, {"already_generated"})

SeamOrSizeBroken(S, n, gen) ==
    \/ BoxW(S) > 2
    \/ BoxH(S) > 2
    \/ n # BoxW(S) * BoxH(S)
    \/ SeamThreshold(S, gen)

\* C5: for every non-empty selection the returned list holds a violation of
\* each of the four rules the selection breaks, and the call raises one
\* error that carries the whole list
ViolationsCollected ==
    (Validated /\ selected # <<>>) =>
        LET S == Range(selected)
            gen == call.pre
        IN /\ (S \cap gen # {}) => HasRule(errors, {"already_generated"})
           /\ \A c \in S \cap gen :
                \E i \in 1..Len(errors) :
                    errors[i] = Violation("already_generated", c)
           /\ (Len(selected) > 1 /\ Disconnected(S)) =>
                HasRule(errors, {"not_connected"})
           /\ NeighborContextBroken(S, gen) =>
                HasRule(errors, {"no_generated_neighbor"})
           /\ SeamOrSizeBroken(S, Len(selected), gen) =>
                HasRule(errors, SeamRules \cup {"size", "not_rectangular"})
           /\ (errors # <<>>) =>
                /\ call.raised = "invalid"
                /\ call.message = errors

\* one call broke all four rules and its error carries all four
CollectedWitness ==
    /\ Validated
    /\ HasRule(errors, {"already_generated"})
    /\ HasRule(errors, {"not_connected"})
    /\ HasRule(errors, {"no_generated_neighbor"})
    /\ HasRule(errors, SeamRules \cup {"size", "not_rectangular"})
    /\ HasRule(call.message, {"already_generated"})
    /\ HasRule(call.message, {"not_connected"})
    /\ HasRule(call.message, {"no_generated_neighbor"})
    /\ HasRule(call.message, SeamRules \cup {"size", "not_rectangular"})

(***************************************************************************)
(* Specification SpecSpiral: spiral_order on any coordinate set            *)
(***************************************************************************)
SpiralCoords == (-1..SpiralMaxX) \X (0..SpiralMaxY)

InitSpiral ==
    /\ coordsIn \in {SortedYX(S) : S \in SUBSET SpiralCoords}
    /\ rings = <<>>
    /\ pc = "input"
    /\ db = <<>> /\ call = NoCall /\ dryRun = FALSE
    /\ IdleValidate /\ IdleRun /\ IdleAuto
    /\ IdleLayout /\ IdleQueue /\ IdleCli /\ IdleServer

ApplySpiralOrder ==
    /\ pc = "input"
    /\ rings' = spiral_order(coordsIn)
    /\ pc' = "ordered"
    /\ UNCHANGED <<db, call, dryRun, selected, errors, coordsIn,
                   RunVars, AutoVars, LayoutVars, QueueVars,
                   CliVars, ServerVars>>

NextSpiral == ApplySpiralOrder

SpecSpiral == InitSpiral /\ [][NextSpiral]_vars

RECURSIVE Flatten(_)
Flatten(ss) == IF ss = <<>> THEN <<>> ELSE Head(ss) \o Flatten(Tail(ss))

\* the emitted order: the rings one after the other
Emitted == Flatten(rings)

\* min_x + max_x and min_y + max_y of the input's bounding box: twice the
\* coordinates of its midpoint
MidSum ==
    <<Min({c[1] : c \in Range(coordsIn)}) + Max({c[1] : c \in Range(coordsIn)}),
      Min({c[2] : c \in Range(coordsIn)}) + Max({c[2] : c \in Range(coordsIn)})>>

\* twice the Chebyshev distance of c from the midpoint m / 2
MidpointRing2(c, m) == Max({Abs(2 * c[1] - m[1]), Abs(2 * c[2] - m[2])})

\* the Chebyshev distance of c from the midpoint m / 2 rounded down
FloorCenterRing(c, m) ==
    Max({Abs(c[1] - (m[1] \div 2)), Abs(c[2] - (m[2] \div 2))})

MidpointOrdered(e, m) ==
    \A i \in 1..(Len(e) - 1) :
        MidpointRing2(e[i], m) <= MidpointRing2(e[i + 1], m)

FloorCenterOrdered(e, m) ==
    \A i \in 1..(Len(e) - 1) :
        FloorCenterRing(e[i], m) <= FloorCenterRing(e[i + 1], m)

\* C9 as stated: the Chebyshev distance from the (possibly fractional)
\* bounding-box midpoint is non-decreasing across the emitted order
MidpointRingNonDecreasing ==
    (pc = "ordered" /\ coordsIn # <<>>) => MidpointOrdered(Emitted, MidSum)

\* C9 amended: the Chebyshev distance from the integer center, the
\* bounding-box midpoint rounded down in x and in y, is non-decreasing
\* across the emitted order, and every input coordinate is emitted once
FloorCenterRingNonDecreasing ==
    (pc = "ordered" /\ coordsIn # <<>>) =>
        /\ FloorCenterOrdered(Emitted, MidSum)
        /\ Range(Emitted) = Range(coordsIn)
        /\ Len(Emitted) = Len(coordsIn)

\* an order of two rings or more around a fractional midpoint
RingWitness ==
    /\ pc = "ordered"
    /\ Len(rings) >= 2
    /\ MidSum[1] % 2 = 1
    /\ Len(Emitted) >= 5

\* c shares the row or the column of the bounding-box midpoint m / 2
CardinalAligned(c, m) == 2 * c[1] = m[1] \/ 2 * c[2] = m[2]

CardinalFirst(ring, m) ==
    \A i \in 1..Len(ring), j \in 1..Len(ring) :
        (CardinalAligned(ring[j], m) /\ ~CardinalAligned(ring[i], m)) => j < i

\* C10 as stated: within each ring every cardinal-aligned coordinate
\* precedes every diagonal coordinate
CardinalBeforeDiagonal ==
    (pc = "ordered" /\ coordsIn # <<>>) =>
        \A k \in 1..Len(rings) : CardinalFirst(rings[k], MidSum)

\* the clockwise position of c on the perimeter of the square of radius r
\* around the integer center (cx, cy), counted from the top-left corner
Clockwise(c, cx, cy, r) ==
    IF c[2] = cy - r THEN c[1] - (cx - r)
    ELSE IF c[1] = cx + r THEN 2 * r + (c[2] - (cy - r))
    ELSE IF c[2] = cy + r THEN 4 * r + ((cx + r) - c[1])
    ELSE 6 * r + ((cy + r) - c[2])

ClockwiseRing(ring, m, r) ==
    /\ \A i \in 1..Len(ring) : FloorCenterRing(ring[i], m) = r
    /\ \A i \in 1..(Len(ring) - 1) :
        Clockwise(ring[i], m[1] \div 2, m[2] \div 2, r)
            < Clockwise(ring[i + 1], m[1] \div 2, m[2] \div 2, r)

\* C10 amended: each ring holds coordinates at one Chebyshev distance from
\* the integer center and lists them clockwise from the top-left corner
\* (top edge left to right, right edge downwards, bottom edge right to
\* left, left edge upwards), whether cardinal-aligned or diagonal
RingClockwise ==
    (pc = "ordered" /\ coordsIn # <<>>) =>
        \A k \in 1..Len(rings) :
            /\ rings[k] # <<>>
            /\ ClockwiseRing(rings[k], MidSum,
                             FloorCenterRing(rings[k][1], MidSum))

\* a full ring around an integer midpoint: it lists its top-left corner, a
\* diagonal coordinate, before the cardinal-aligned one next to it
ClockwiseWitness ==
    /\ pc = "ordered"
    /\ \E k \in 1..Len(rings) :
        /\ Len(rings[k]) = 8
        /\ ~CardinalAligned(rings[k][1], MidSum)
        /\ CardinalAligned(rings[k][2], MidSum)

(***************************************************************************)
(* Specification SpecPlan: row 0 of the store is generated; a strip plan   *)
(* over the rows below it is run and re-run by generate_tiles_omni         *)
(* --plan-file, interrupted at any step, with direct generate_tiles_omni   *)
(* calls between the runs                                                  *)
(***************************************************************************)
PlanCoords == (0..PlanMaxX) \X (0..PlanMaxY)

\* a coordinate the store has no row for
PlanMissingKey == <<PlanMaxX + 1, 0>>

\* the selections of the direct calls: one quadrant of the store, or a
\* generated quadrant together with the coordinate that is not in the store
DirectSelections ==
    {<<c>> : c \in PlanCoords} \cup {<< <<0, 0>>, PlanMissingKey >>}

InitPlan ==
    /\ db = [k \in PlanCoords |-> Row(k[2] = 0)]
    /\ planFile = make_strip_plan(load_grid_from_db(db), <<0, 1>>,
                                  <<PlanMaxX, PlanMaxY>>)
    /\ plan = <<>> /\ planRead = <<>> /\ stepIdx = 0 /\ runLog = <<>>
    /\ pc = "idle"
    /\ call = NoCall /\ dryRun = FALSE
    /\ IdleValidate /\ IdleAuto /\ IdleSpiral
    /\ IdleLayout /\ IdleQueue /\ IdleCli /\ IdleServer

\* lines 69-73: read the plan file and enter the loop
StartPlanRun ==
    /\ pc = "idle"
    /\ \E dry \in BOOLEAN : dryRun' = dry
    /\ plan' = planFile
    /\ planRead' = planFile
    /\ stepIdx' = 1
    /\ runLog' = <<>>
    /\ pc' = "running"
    /\ call' = NoCall
    /\ UNCHANGED <<db, planFile, selected, errors, AutoVars, SpiralVars, LayoutVars, QueueVars,
                   CliVars, ServerVars>>

\* lines 76-82: a step that is done or in error is passed over
SkipStep ==
    /\ pc = "running"
    /\ stepIdx <= Len(plan.steps)
    /\ plan.steps[stepIdx].status \in SkipStatuses
    /\ runLog' = Append(runLog, LogEntry(stepIdx, "skipped", FALSE))
    /\ stepIdx' = stepIdx + 1
    /\ call' = NoCall
    /\ UNCHANGED <<db, pc, planFile, plan, planRead, dryRun, selected, errors,
                   AutoVars, SpiralVars, LayoutVars, QueueVars,
                   CliVars, ServerVars>>

\* lines 84-103: the step is generated, marked and the file rewritten
ExecStep ==
    /\ pc = "running"
    /\ stepIdx <= Len(plan.steps)
    /\ plan.steps[stepIdx].status \notin SkipStatuses
    /\ \E outcome \in Outcomes :
        \E r \in {run_generation_for_quadrants(
                      db, plan.steps[stepIdx].quadrants, dryRun, outcome)} :
            /\ db' = r.db
            /\ call' = r.call
            /\ plan' = [plan EXCEPT
                    !.steps[stepIdx] = StepAfter(plan.steps[stepIdx], r.call)]
            /\ runLog' = Append(runLog,
                    LogEntry(stepIdx, plan'.steps[stepIdx].status, TRUE))
    /\ planFile' = plan'
    /\ stepIdx' = stepIdx + 1
    /\ UNCHANGED <<pc, planRead, dryRun, selected, errors,
                   AutoVars, SpiralVars, LayoutVars, QueueVars,
                   CliVars, ServerVars>>

\* the loop is over and the process exits; what it held in memory is gone
FinishPlanRun ==
    /\ pc = "running"
    /\ stepIdx > Len(plan.steps)
    /\ pc' = "idle"
    /\ plan' = <<>> /\ planRead' = <<>> /\ stepIdx' = 0 /\ runLog' = <<>>
    /\ dryRun' = FALSE
    /\ call' = NoCall
    /\ UNCHANGED <<db, planFile, selected, errors, AutoVars, SpiralVars, LayoutVars, QueueVars,
                   CliVars, ServerVars>>

\* the process is interrupted inside a step, after the generation call
\* returned and before line 102 rewrites the file (KeyboardInterrupt is
\* not an Exception, line 96 does not catch it)
InterruptInStep ==
    /\ pc = "running"
    /\ stepIdx <= Len(plan.steps)
    /\ plan.steps[stepIdx].status \notin SkipStatuses
    /\ \E outcome \in Outcomes :
        \E r \in {run_generation_for_quadrants(
                      db, plan.steps[stepIdx].quadrants, dryRun, outcome)} :
            /\ db' = r.db
            /\ call' = r.call
    /\ pc' = "idle"
    /\ plan' = <<>> /\ planRead' = <<>> /\ stepIdx' = 0 /\ runLog' = <<>>
    /\ dryRun' = FALSE
    /\ UNCHANGED <<planFile, selected, errors, AutoVars, SpiralVars, LayoutVars, QueueVars,
                   CliVars, ServerVars>>

\* generate_tiles_omni.py lines 53-55: quadrants given on the command line
DirectGenerate ==
    /\ pc = "idle"
    /\ \E sel \in DirectSelections, outcome \in Outcomes :
        \E r \in {run_generation_for_quadrants(db, sel, FALSE, outcome)} :
            /\ db' = r.db
            /\ call' = r.call
    /\ UNCHANGED <<pc, planFile, plan, planRead, stepIdx, runLog, dryRun,
                   selected, errors, AutoVars, SpiralVars, LayoutVars, QueueVars,
                   CliVars, ServerVars>>

NextPlan ==
    \/ StartPlanRun
    \/ SkipStep
    \/ ExecStep
    \/ FinishPlanRun
    \/ InterruptInStep
    \/ DirectGenerate

SpecPlan == InitPlan /\ [][NextPlan]_vars

(***************************************************************************)
(* Specification SpecAuto: one unattended auto_generate run over the whole *)
(* store                                                                   *)
(***************************************************************************)
AutoCoords == (0..AutoMax) \X (0..AutoMax)

BatchSizes == {1, 2, DefaultBatch}

InitAuto ==
    /\ db \in Stores(AutoCoords, AutoMaxGen)
    /\ pc = "idle"
    /\ call = NoCall /\ dryRun = FALSE
    /\ IdleAuto /\ IdleRun /\ IdleValidate /\ IdleSpiral
    /\ IdleLayout /\ IdleQueue /\ IdleCli /\ IdleServer

\* lines 186-202: find the quadrants in the bounds and plan the steps
StartAuto ==
    /\ pc = "idle"
    /\ \E region \in {AutoCoords, {}}, max_batch_size \in BatchSizes,
          dry \in BOOLEAN, key \in BOOLEAN :
        \E coords \in {SortedYX(region)} :
            /\ dryRun' = dry
            /\ apiKey' = key
            /\ maxBatch' = max_batch_size
            /\ IF coords = <<>>
               THEN /\ pc' = "finished"
                    /\ autoSteps' = <<>>
                    /\ autoIdx' = 0
               ELSE /\ pc' = "running"
                    /\ autoSteps' = plan_generation_steps(
                            coords, load_grid_from_db(db), max_batch_size)
                    /\ autoIdx' = 1
    /\ autoLog' = <<>>
    /\ UNCHANGED <<db, call, selected, errors, RunVars, SpiralVars, LayoutVars, QueueVars,
                   CliVars, ServerVars>>

\* lines 204-211: a step of a dry run, or of a run without an API key
AutoStepPlanOnly ==
    /\ pc = "running"
    /\ autoIdx <= Len(autoSteps)
    /\ dryRun \/ ~apiKey
    /\ autoLog' = Append(autoLog,
            LogEntry(autoIdx, IF dryRun THEN "planned" ELSE "no_key", FALSE))
    /\ autoIdx' = autoIdx + 1
    /\ UNCHANGED <<db, pc, call, dryRun, apiKey, maxBatch, autoSteps,
                   selected, errors,
                   RunVars, SpiralVars, LayoutVars, QueueVars,
                   CliVars, ServerVars>>

\* lines 213-221: a step that calls the generation
AutoStepGenerate ==
    /\ pc = "running"
    /\ autoIdx <= Len(autoSteps)
    /\ ~dryRun /\ apiKey
    /\ \E outcome \in Outcomes :
        \E r \in {run_generation_for_quadrants(
                      db, autoSteps[autoIdx], FALSE, outcome)} :
            /\ db' = r.db
            /\ call' = r.call
            /\ autoLog' = Append(autoLog,
                    LogEntry(autoIdx,
                             IF r.call.raised = "none" THEN "done" ELSE "error",
                             TRUE))
            /\ pc' = AutoAfter(r.call.raised)
            /\ autoIdx' = IF pc' = "running" THEN autoIdx + 1 ELSE autoIdx
    /\ UNCHANGED <<dryRun, apiKey, maxBatch, autoSteps, selected, errors,
                   RunVars, SpiralVars, LayoutVars, QueueVars,
                   CliVars, ServerVars>>

\* the loop is over
AutoFinish ==
    /\ pc = "running"
    /\ autoIdx > Len(autoSteps)
    /\ pc' = "finished"
    /\ UNCHANGED <<db, call, dryRun, apiKey, maxBatch, autoSteps, autoIdx,
                   autoLog,
                   selected, errors, RunVars, SpiralVars, LayoutVars, QueueVars,
                   CliVars, ServerVars>>

NextAuto ==
    \/ StartAuto
    \/ AutoStepPlanOnly
    \/ AutoStepGenerate
    \/ AutoFinish

SpecAuto == InitAuto /\ [][NextAuto]_vars

(***************************************************************************)
(* Properties of the plan-file runner and of the calls it makes            *)
(***************************************************************************)
\* the coordinates of the last call that were generated when it started
Regenerated == Range(call.coords) \cap call.pre

\* C4: a call whose coordinates include a quadrant that is generated in
\* the store when the call starts raises before any service is contacted
\* and writes nothing: the store still holds exactly the generated
\* quadrants it held, and when the lookups succeeded the raised error
\* names every such quadrant as already generated
NoRegeneration ==
    (call.raised # "never" /\ Regenerated # {}) =>
        /\ call.raised \in {"not_found", "invalid"}
        /\ call.service = 0
        /\ call.wrote = {}
        /\ StoreGenerated = call.pre
        /\ call.raised = "invalid" =>
            \A c \in Regenerated :
                \E i \in 1..Len(call.message) :
                    call.message[i] = Violation("already_generated", c)

\* a re-run reached a step whose quadrant an interrupted run had saved,
\* and the step was marked error
NoRegenerationWitness ==
    /\ pc = "running"
    /\ ~dryRun
    /\ runLog # <<>>
    /\ runLog[Len(runLog)].did = "error"
    /\ call.raised = "invalid"
    /\ Regenerated # {}

\* C6 as stated: after a step of the plan fails, the run halts: no later
\* step of the same run makes a generation call
ErrorHaltsPlanRun ==
    \A j, k \in 1..Len(runLog) :
        (j < k /\ runLog[j].did = "error") => ~runLog[k].called

\* C8: in one run of a plan file the steps are handled in order, each at
\* most once; a step whose status was done or error when the file was read
\* is passed over without a call and keeps its record; every other step is
\* attempted with one call and marked done or error; the file holds the
\* record of every handled step before the next one starts; the run ends
\* only when every step was handled
PlanRunResumable ==
    pc = "running" =>
        /\ Len(runLog) = stepIdx - 1
        /\ stepIdx <= Len(planRead.steps) + 1
        /\ Len(plan.steps) = Len(planRead.steps)
        /\ \A k \in 1..Len(runLog) :
            /\ runLog[k].step = k
            /\ planFile.steps[k] = plan.steps[k]
            /\ IF planRead.steps[k].status \in {"done", "error"}
               THEN /\ runLog[k].did = "skipped"
                    /\ ~runLog[k].called
                    /\ plan.steps[k] = planRead.steps[k]
               ELSE /\ runLog[k].called
                    /\ runLog[k].did \in {"done", "error"}
                    /\ plan.steps[k].status = runLog[k].did
                    /\ plan.steps[k].quadrants = planRead.steps[k].quadrants
        /\ \A k \in stepIdx..Len(plan.steps) :
            /\ plan.steps[k] = planRead.steps[k]
            /\ planFile.steps[k] = planRead.steps[k]

\* a re-run passed over a step in error and a step that was done, and
\* attempted a step that was pending
ResumeWitness ==
    /\ pc = "running"
    /\ stepIdx > Len(plan.steps)
    /\ \E k \in 1..Len(runLog) :
        runLog[k].did = "skipped" /\ planRead.steps[k].status = "error"
    /\ \E k \in 1..Len(runLog) :
        runLog[k].called /\ planRead.steps[k].status = "pending"

(***************************************************************************)
(* Properties of the unattended run                                        *)
(***************************************************************************)
\* C7: in an auto_generate run the steps are taken in plan order, each at
\* most once; a step whose call raised is the last step the run takes: the
\* run is stopped at that step, with the steps after it left untaken
AutoFailsFast ==
    /\ \A k \in 1..Len(autoLog) :
        /\ autoLog[k].step = k
        /\ (k < Len(autoLog) => autoLog[k].did # "error")
    /\ (autoLog # <<>> /\ autoLog[Len(autoLog)].did = "error") =>
        /\ pc = "stopped"
        /\ autoIdx = Len(autoLog)
    /\ pc = "stopped" =>
        (autoLog # <<>> /\ autoLog[Len(autoLog)].did = "error")

\* a run generated a step, then a step raised, and planned steps remain
AutoFailsFastWitness ==
    /\ pc = "stopped"
    /\ Len(autoLog) >= 2
    /\ autoLog[1].did = "done"
    /\ autoLog[Len(autoLog)].did = "error"
    /\ Len(autoSteps) > Len(autoLog)

(***************************************************************************)
(* Specification SpecSteps: plan_generation_steps on the quadrants of a    *)
(* rectangle of the store                                                  *)
(***************************************************************************)
\* find_quadrants_in_bounds: the rows inside the bounds, ordered by y, x
Rectangles ==
    {SortedYX({c \in AutoCoords : /\ a[1] <= c[1] /\ c[1] <= b[1]
                                  /\ a[2] <= c[2] /\ c[2] <= b[2]}) :
        a \in AutoCoords, b \in AutoCoords}

InitSteps ==
    /\ db \in Stores(AutoCoords, AutoMaxGen)
    /\ coordsIn \in Rectangles \ {<<>>}
    /\ rings = <<>>
    /\ pc = "idle"
    /\ call = NoCall /\ dryRun = FALSE
    /\ IdleAuto /\ IdleRun /\ IdleValidate
    /\ IdleLayout /\ IdleQueue /\ IdleCli /\ IdleServer

\* auto_generate.py lines 198-201
PlanSteps ==
    /\ pc = "idle"
    /\ \E max_batch_size \in BatchSizes :
        /\ autoSteps' = plan_generation_steps(
                coordsIn, load_grid_from_db(db), max_batch_size)
        /\ maxBatch' = max_batch_size
    /\ pc' = "planned"
    /\ UNCHANGED <<db, call, dryRun, autoIdx, autoLog, apiKey, selected,
                   errors, RunVars, SpiralVars, LayoutVars, QueueVars,
                   CliVars, ServerVars>>

NextSteps == PlanSteps

SpecSteps == InitSteps /\ [][NextSteps]_vars

(***************************************************************************)
(* Properties of the planned steps                                         *)
(***************************************************************************)
\* the coordinates of the steps before step k
EarlierSteps(steps, k) == UNION {Range(steps[j]) : j \in 1..(k - 1)}

\* C11 as stated: every planned step but the first holds a coordinate with
\* a cardinal neighbour that is generated in the store or belongs to an
\* earlier step of the plan
StepsHaveContext ==
    pc = "planned" =>
        \A k \in 2..Len(autoSteps) :
            \E c \in Range(autoSteps[k]),
               g \in StoreGenerated \cup EarlierSteps(autoSteps, k) :
                Adjacent(c, g)

\* the input coordinates that are not generated in the store
Ungenerated == Range(coordsIn) \ StoreGenerated

\* a step is a batch of one ring: non-empty, without repetition, at most
\* max_batch_size long, free of generated quadrants, all at distance r
BatchOfRing(step, m, r) ==
    /\ step # <<>>
    /\ Len(step) <= maxBatch
    /\ Cardinality(Range(step)) = Len(step)
    /\ Range(step) \cap StoreGenerated = {}
    /\ \A c \in Range(step) : FloorCenterRing(c, m) = r

StepsPartition(steps, m) ==
    /\ \A k \in 1..Len(steps) :
        BatchOfRing(steps[k], m, FloorCenterRing(steps[k][1], m))
    /\ \A k \in 1..(Len(steps) - 1) :
        FloorCenterRing(steps[k][1], m) <= FloorCenterRing(steps[k + 1][1], m)
    /\ Range(Flatten(steps)) = Ungenerated
    /\ Len(Flatten(steps)) = Cardinality(Ungenerated)

\* C12: the steps of plan_generation_steps partition the input coordinates
\* that are not generated: each step is non-empty, at most max_batch_size
\* long, free of generated coordinates and inside one ring (distance from
\* the integer center), the rings do not decrease from step to step, and
\* each ungenerated input coordinate is in exactly one step
StepsPartitionUngenerated ==
    pc = "planned" => StepsPartition(autoSteps, MidSum)

\* a plan with a full batch and a shorter one, over an input that holds a
\* generated quadrant
StepsPartitionWitness ==
    /\ pc = "planned"
    /\ maxBatch >= 2
    /\ Range(coordsIn) \cap StoreGenerated # {}
    /\ \E k \in 1..Len(autoSteps) : Len(autoSteps[k]) = maxBatch
    /\ \E k \in 2..Len(autoSteps) : Len(autoSteps[k]) < maxBatch

(***************************************************************************)
(* Specification SpecStrip: make_strip_plan on a region anchored at (0, 0) *)
(* that may reach one column beyond the store                              *)
(***************************************************************************)
StripCoords == (0..StripMaxX) \X (0..StripMaxY)

InitStrip ==
    /\ db \in Stores(StripCoords, StripMaxGen)
    /\ planFile = <<>> /\ plan = <<>> /\ planRead = <<>>
    /\ stepIdx = 0 /\ runLog = <<>>
    /\ pc = "idle"
    /\ call = NoCall /\ dryRun = FALSE
    /\ IdleAuto /\ IdleValidate /\ IdleSpiral
    /\ IdleLayout /\ IdleQueue /\ IdleCli /\ IdleServer

\* make_strip_plan.py lines 100-135: main loads the grid, plans and writes
\* the plan file; the corners may be given in either order
MakeStripPlan ==
    /\ pc = "idle"
    /\ \E x \in 0..(StripMaxX + 1), y \in 0..StripMaxY, swapped \in BOOLEAN :
        planFile' = IF swapped
                    THEN make_strip_plan(load_grid_from_db(db),
                                         <<x, y>>, <<0, 0>>)
                    ELSE make_strip_plan(load_grid_from_db(db),
                                         <<0, 0>>, <<x, y>>)
    /\ pc' = "strip_planned"
    /\ UNCHANGED <<db, call, dryRun, plan, planRead, stepIdx, runLog,
                   selected, errors, AutoVars, SpiralVars, LayoutVars, QueueVars,
                   CliVars, ServerVars>>

NextStrip == MakeStripPlan

SpecStrip == InitStrip /\ [][NextStrip]_vars

(***************************************************************************)
(* Properties of the strip plan                                            *)
(***************************************************************************)
RegionMinX == Min({planFile.top_left[1], planFile.bottom_right[1]})

RegionMaxX == Max({planFile.top_left[1], planFile.bottom_right[1]})

RegionMinY == Min({planFile.top_left[2], planFile.bottom_right[2]})

RegionMaxY == Max({planFile.top_left[2], planFile.bottom_right[2]})

RegionDepth == RegionMaxY - RegionMinY + 1

\* the cells of column x of the region that are not generated
OpenCells(x) == {<<x, y>> : y \in RegionMinY..RegionMaxY} \ StoreGenerated

\* the quadrant lists of the steps that start in column x, in plan order
ColumnSteps(steps, x) ==
    LET InColumn(st) == st.quadrants[1][1] = x
        sel == SelectSeq(steps, InColumn)
    IN [k \in 1..Len(sel) |-> sel[k].quadrants]

OneColumn(q) == \A i \in 1..Len(q) : q[i][1] = q[1][1]

AscendingY(q) == \A i \in 1..(Len(q) - 1) : q[i][2] < q[i + 1][2]

\* the steps of column x hold exactly the open cells of the column, top to
\* bottom: in one step when the depth is at most 3, else in steps of at most 4
ColumnBatched(steps, x) ==
    LET cs == ColumnSteps(steps, x)
        all == Flatten(cs)
    IN /\ Range(all) = OpenCells(x)
       /\ AscendingY(all)
       /\ IF RegionDepth <= 3
          THEN Len(cs) = (IF OpenCells(x) = {} THEN 0 ELSE 1)
          ELSE \A k \in 1..Len(cs) : Len(cs[k]) <= 4

\* C13: with a depth of at most 3 every column that has a cell not
\* generated gives exactly one step, holding all of them; with a larger
\* depth the column's cells are split into consecutive steps of at most 4;
\* no step spans two columns; a 1-row, 5-column region with nothing
\* generated gives 5 steps of one quadrant
StripBatchSizing ==
    pc = "strip_planned" =>
        /\ planFile.depth = RegionDepth
        /\ \A k \in 1..Len(planFile.steps) :
            /\ planFile.steps[k].quadrants # <<>>
            /\ OneColumn(planFile.steps[k].quadrants)
            /\ planFile.steps[k].quadrants[1][1] \in RegionMinX..RegionMaxX
        /\ \A x \in RegionMinX..RegionMaxX : ColumnBatched(planFile.steps, x)
        /\ (/\ RegionDepth = 1
            /\ RegionMaxX - RegionMinX + 1 = 5
            /\ \A x \in RegionMinX..RegionMaxX : OpenCells(x) # {}) =>
                /\ Len(planFile.steps) = 5
                /\ \A k \in 1..5 : Len(planFile.steps[k].quadrants) = 1

\* a column of depth 5 was split into a step of 4 and a step of 1
StripBatchWitness ==
    /\ pc = "strip_planned"
    /\ RegionDepth = 5
    /\ Len(planFile.steps) >= 2
    /\ Len(planFile.steps[1].quadrants) = 4
    /\ Len(planFile.steps[2].quadrants) = 1
    /\ planFile.steps[1].quadrants[1][1] = planFile.steps[2].quadrants[1][1]

\* all the cells of the steps, in plan order
PlannedCells == Flatten([k \in 1..Len(planFile.steps) |->
                            planFile.steps[k].quadrants])

\* C14: the steps come in left-to-right column order, one column per step,
\* rows ascending inside a step; together they hold every cell of the
\* region that is not generated exactly once and no generated cell; every
\* status is pending and total_steps is the number of steps
StripPlanCoversRegion ==
    pc = "strip_planned" =>
        /\ \A k \in 1..Len(planFile.steps) :
            /\ planFile.steps[k].quadrants # <<>>
            /\ OneColumn(planFile.steps[k].quadrants)
            /\ AscendingY(planFile.steps[k].quadrants)
            /\ planFile.steps[k].status = "pending"
        /\ \A k \in 1..(Len(planFile.steps) - 1) :
            planFile.steps[k].quadrants[1][1]
                <= planFile.steps[k + 1].quadrants[1][1]
        /\ Range(PlannedCells)
            = UNION {OpenCells(x) : x \in RegionMinX..RegionMaxX}
        /\ Cardinality(Range(PlannedCells)) = Len(PlannedCells)
        /\ planFile.total_steps = Len(planFile.steps)

\* a plan of several columns over a region that holds a generated cell,
\* given with its corners swapped
StripPlanWitness ==
    /\ pc = "strip_planned"
    /\ planFile.bottom_right = <<0, 0>>
    /\ RegionMaxX >= 2
    /\ RegionDepth >= 2
    /\ \E x \in RegionMinX..RegionMaxX, y \in RegionMinY..RegionMaxY :
        <<x, y>> \in StoreGenerated
    /\ Len(planFile.steps) >= 3

(***************************************************************************)
(* Specification SpecStore: the writers of the quadrants table, in any     *)
(* order, on a freshly seeded store                                        *)
(***************************************************************************)
StoreCoords == (0..StoreMaxX) \X {0}

\* a coordinate the store has no row for
StoreMissingKey == <<StoreMaxX + 1, 0>>

\* one quadrant, two adjacent quadrants, or a coordinate without a row
StoreSelections ==
    {<<c>> : c \in StoreCoords \cup {StoreMissingKey}}
    \cup {p \in StoreCoords \X StoreCoords :
                \/ p[2] = <<p[1][1] + 1, p[1][2]>>
                \/ p[2] = <<p[1][1], p[1][2] + 1>>}

\* seed_tiles.py lines 181-187: rows are inserted without an image
InitStore ==
    /\ db = [k \in StoreCoords |-> [is_generated |-> FALSE,
                                    generation |-> FALSE]]
    /\ pc = "seeded"
    /\ call = NoCall /\ dryRun = FALSE
    /\ IdleRun /\ IdleAuto /\ IdleValidate /\ IdleSpiral
    /\ IdleLayout /\ IdleQueue /\ IdleCli /\ IdleServer

\* one run_generation_for_quadrants call
StoreGenerate ==
    /\ \E sel \in StoreSelections, dry \in BOOLEAN,
          outcome \in Outcomes \cup LateOutcomes :
        \* a dry run returns before anything outside the program is reached
        /\ dry => outcome = "ok"
        /\ \E r \in {run_generation_for_quadrants(db, sel, dry, outcome)} :
            /\ db' = r.db
            /\ call' = r.call
            /\ dryRun' = dry
    /\ pc' = "generated"
    /\ UNCHANGED <<selected, errors, RunVars, AutoVars, SpiralVars, LayoutVars, QueueVars,
                   CliVars, ServerVars>>

\* the viewer's DELETE /api/generation
StoreDelete ==
    /\ \E k \in StoreCoords \cup {StoreMissingKey} :
        db' = delete_generation(db, k)
    /\ pc' = "deleted"
    /\ call' = NoCall /\ dryRun' = FALSE
    /\ UNCHANGED <<selected, errors, RunVars, AutoVars, SpiralVars, LayoutVars, QueueVars,
                   CliVars, ServerVars>>

\* import_quadrants with one file
StoreImport ==
    /\ \E k \in StoreCoords \cup {StoreMissingKey},
          col_name \in {"generation", "render"}, dry \in BOOLEAN :
        /\ db' = IF dry THEN db ELSE import_file(db, k, col_name)
        /\ dryRun' = dry
    /\ pc' = "imported"
    /\ call' = NoCall
    /\ UNCHANGED <<selected, errors, RunVars, AutoVars, SpiralVars, LayoutVars, QueueVars,
                   CliVars, ServerVars>>

\* replace_color on one quadrant
StoreReplaceColor ==
    /\ \E k \in StoreCoords \cup {StoreMissingKey}, dry \in BOOLEAN :
        /\ db' = process_quadrant_in_db(db, k, dry)
        /\ dryRun' = dry
    /\ pc' = "recoloured"
    /\ call' = NoCall
    /\ UNCHANGED <<selected, errors, RunVars, AutoVars, SpiralVars, LayoutVars, QueueVars,
                   CliVars, ServerVars>>

NextStore ==
    \/ StoreGenerate
    \/ StoreDelete
    \/ StoreImport
    \/ StoreReplaceColor

SpecStore == InitStore /\ [][NextStore]_vars

(***************************************************************************)
(* Properties of the store                                                 *)
(***************************************************************************)
\* C15: every row with is_generated set holds a generation image, so every
\* quadrant loaded as GENERATED has its image
GeneratedHasImage ==
    \A k \in DOMAIN db :
        /\ db[k].is_generated => db[k].generation
        /\ load_grid_from_db(db)[k] = GENERATED => db[k].generation

\* a generation was deleted and another row is still generated
GeneratedHasImageWitness ==
    /\ pc = "deleted"
    /\ \E k \in DOMAIN db : db[k].is_generated
    /\ \E k \in DOMAIN db : ~db[k].is_generated

\* C16: a run_generation_for_quadrants call changes no row but rows of its
\* selection, which it marks generated with an image, and only in a call
\* that is not a dry run and whose service call returned; when the lookup,
\* the validation, the upload, the service call, the download or the size
\* check fails, or in a dry run, the store is left as it was
GenerationFrame ==
    [][pc' = "generated" =>
        /\ DOMAIN db' = DOMAIN db
        /\ \A k \in DOMAIN db :
            db'[k] # db[k] =>
                /\ k \in Range(call'.coords)
                /\ db'[k] = [is_generated |-> TRUE, generation |-> TRUE]
                /\ ~dryRun'
                /\ call'.service = 1
                /\ call'.raised \in {"none", "save"}
        /\ (dryRun' \/ call'.raised \in {"not_found", "invalid", "upload",
                                         "api", "download", "size"})
            => db' = db
        /\ call'.service <= 1]_vars

\* a call generated two quadrants next to a generated one it left alone
GenerationFrameWitness ==
    /\ pc = "generated"
    /\ call.raised = "none"
    /\ ~dryRun
    /\ Len(call.coords) = 2
    /\ call.wrote = Range(call.coords)
    /\ call.pre # {}
    /\ StoreGenerated = call.pre \cup Range(call.coords)

\* C17: when the k-th save of a batch fails the call raises, the quadrants
\* of the batch before the k-th are generated in the store, the k-th and
\* those after it are not, and the other rows are as they were
PartialBatchKept ==
    (pc = "generated" /\ call.raised = "save") =>
        \E k \in 1..Len(call.coords) :
            /\ call.wrote = Range(SubSeq(call.coords, 1, k - 1))
            /\ \A i \in 1..(k - 1) :
                /\ db[call.coords[i]].is_generated
                /\ db[call.coords[i]].generation
            /\ \A i \in k..Len(call.coords) :
                ~db[call.coords[i]].is_generated
            /\ StoreGenerated \ Range(call.coords) = call.pre

\* the second save of a batch of two failed after the first was committed
PartialBatchWitness ==
    /\ pc = "generated"
    /\ call.raised = "save"
    /\ Len(call.coords) = 2
    /\ db[call.coords[1]].is_generated
    /\ ~db[call.coords[2]].is_generated

(***************************************************************************)
(* Specification SpecQueue: Generate clicks, Clear Queue clicks and server *)
(* responses on the viewer page, in any order                              *)
(***************************************************************************)
InitQueue ==
    /\ queue = <<>>
    /\ nextQueueId = 1
    /\ tasks = {}
    /\ sent = <<>>
    /\ pc = "page"
    /\ db = <<>> /\ call = NoCall /\ dryRun = FALSE
    /\ IdleRun /\ IdleAuto /\ IdleValidate /\ IdleSpiral /\ IdleLayout
    /\ IdleCli /\ IdleServer

\* generateSelected with n tiles selected: lines 1063-1077
GenerateClick ==
    /\ \E n \in 1..QueueMaxClick :
        /\ nextQueueId + n <= QueueMaxItems + 1
        /\ nextQueueId' = nextQueueId + n
        /\ \E r \in {processQueue(Enqueue(queue, nextQueueId, n),
                                  tasks, sent)} :
            /\ queue' = r.queue
            /\ tasks' = r.tasks
            /\ sent' = r.sent
    /\ UNCHANGED <<db, pc, call, dryRun, selected, errors, RunVars, AutoVars,
                   SpiralVars, LayoutVars, CliVars, ServerVars>>

\* clearQueue: lines 1118-1125
ClearQueue ==
    /\ queue' = SelectSeq(queue, LAMBDA i : i.status # "queued")
    /\ UNCHANGED <<db, pc, call, dryRun, selected, errors, RunVars, AutoVars,
                   SpiralVars, LayoutVars, CliVars, ServerVars,
                   nextQueueId, tasks, sent>>

\* the response to a request, or its failure: lines 1093-1112
Response ==
    /\ \E t \in tasks, result \in {"ok", "error", "network_error"} :
        /\ t.at = "fetch"
        /\ queue' = SetStatus(queue, t.id,
                              IF result = "ok" THEN "done" ELSE "error")
        /\ tasks' = (tasks \ {t}) \cup {[at |-> "load", id |-> t.id]}
    /\ UNCHANGED <<db, pc, call, dryRun, selected, errors, RunVars, AutoVars,
                   SpiralVars, LayoutVars, CliVars, ServerVars,
                   nextQueueId, sent>>

\* loadQuadrants returned: lines 1114-1115
Reloaded ==
    /\ \E t \in tasks :
        /\ t.at = "load"
        /\ \E r \in {processQueue(queue, tasks \ {t}, sent)} :
            /\ queue' = r.queue
            /\ tasks' = r.tasks
            /\ sent' = r.sent
    /\ UNCHANGED <<db, pc, call, dryRun, selected, errors, RunVars, AutoVars,
                   SpiralVars, LayoutVars, CliVars, ServerVars,
                   nextQueueId>>

NextQueue ==
    \/ GenerateClick
    \/ ClearQueue
    \/ Response
    \/ Reloaded

SpecQueue == InitQueue /\ [][NextQueue]_vars

(***************************************************************************)
(* Properties of the client queue                                          *)
(***************************************************************************)
\* the ids of the requests that were sent and are not answered
InFlight == {t.id : t \in {u \in tasks : u.at = "fetch"}}

\* C18: at most one item is in processing and at most one request is in
\* flight, that of the item in processing; requests are sent in enqueue
\* order, each item's at most once; an item that is no longer queued has
\* only items that are done or in error before it in the queue
QueueOneAtATime ==
    /\ Cardinality({i \in 1..Len(queue) : queue[i].status = "processing"}) <= 1
    /\ Cardinality(InFlight) <= 1
    /\ InFlight = {queue[i].id : i \in {j \in 1..Len(queue) :
                                          queue[j].status = "processing"}}
    /\ \A i \in 1..(Len(sent) - 1) : sent[i] < sent[i + 1]
    /\ \A i \in 1..(Len(queue) - 1) : queue[i].id < queue[i + 1].id
    /\ \A i \in 1..Len(queue) :
        queue[i].status # "queued" =>
            /\ queue[i].id \in Range(sent)
            /\ \A j \in 1..(i - 1) : queue[j].status \in {"done", "error"}

\* a click came while the page reloaded after an item: the next request is
\* in flight, an item is still queued behind it, and an item was cleared
QueueWitness ==
    /\ \E t \in tasks : t.at = "load"
    /\ InFlight # {}
    /\ \E i \in 1..Len(queue) : queue[i].status = "queued"
    /\ \E i \in 1..Len(queue) : queue[i].status = "error"
    /\ Len(queue) < nextQueueId - 1

(***************************************************************************)
(* Specification SpecCorner: _best_corner_for_single on the quadrants of a *)
(* store, those at its edge included                                       *)
(***************************************************************************)
CornerCoords == (0..CornerMax) \X (0..CornerMax)

InitCorner ==
    /\ db \in Stores(CornerCoords, CornerMaxGen)
    /\ pc = "input"
    /\ corner = <<>> /\ layout = <<>> /\ canvas = <<>> /\ renders = {}
    /\ extracted = <<>>
    /\ selected = <<>> /\ errors = <<>>
    /\ call = NoCall /\ dryRun = FALSE
    /\ IdleRun /\ IdleAuto /\ IdleSpiral /\ IdleQueue /\ IdleCli /\ IdleServer

\* _compute_2x2_layout with a 1x1 selection: lines 309-311
PlaceSingle ==
    /\ pc = "input"
    /\ \E q \in DOMAIN db :
        /\ selected' = <<q>>
        /\ corner' = _best_corner_for_single(q, load_grid_from_db(db))
    /\ pc' = "placed"
    /\ UNCHANGED <<db, call, dryRun, errors, RunVars, AutoVars, SpiralVars,
                   QueueVars, CliVars, ServerVars, layout, canvas,
                   renders, extracted>>

NextCorner == PlaceSingle

SpecCorner == InitCorner /\ [][NextCorner]_vars

(***************************************************************************)
(* Properties of the corner placement                                      *)
(***************************************************************************)
\* the cells of the 2x2 window that has the target q at corner P
Window(q, P) ==
    {<<q[1] - P[1] + dc, q[2] - P[2] + dr>> : dc \in 0..1, dr \in 0..1}

\* the score as the documentation states it: 2 for each GENERATED cell of
\* the window in the target's row or column, 1 for a GENERATED diagonal one
StatedScore(grid, q, P) ==
    2 * Cardinality({c \in Window(q, P) \ {q} :
                        /\ IsGenerated(grid, c)
                        /\ (c[1] = q[1] \/ c[2] = q[2])})
    + Cardinality({c \in Window(q, P) \ {q} :
                        /\ IsGenerated(grid, c)
                        /\ c[1] # q[1] /\ c[2] # q[2]})

CornerIndex(P) == CHOOSE i \in 1..Len(Corners) : Corners[i] = P

\* C19: the corner returned for a 1x1 target has the maximal score of the
\* four corners, the score being the stated one, and no corner before it in
\* the order (0,0), (0,1), (1,0), (1,1) has that score
BestCornerIsFirstMax ==
    pc = "placed" =>
        LET q == selected[1]
            grid == load_grid_from_db(db)
        IN /\ corner \in Range(Corners)
           /\ \A i \in 1..Len(Corners) :
                /\ CornerScore(grid, q, Corners[i][1], Corners[i][2])
                     = StatedScore(grid, q, Corners[i])
                /\ StatedScore(grid, q, Corners[i])
                     <= StatedScore(grid, q, corner)
                /\ i < CornerIndex(corner) =>
                     StatedScore(grid, q, Corners[i])
                       < StatedScore(grid, q, corner)

\* a target at the store's left edge, where half of two windows has no row,
\* placed at a corner other than the first that ties with a later corner,
\* the first corner scoring by its diagonal cell alone
BestCornerWitness ==
    /\ pc = "placed"
    /\ selected[1][1] = 0
    /\ corner = <<0, 1>>
    /\ StatedScore(load_grid_from_db(db), selected[1], <<0, 1>>)
         = StatedScore(load_grid_from_db(db), selected[1], <<1, 1>>)
    /\ StatedScore(load_grid_from_db(db), selected[1], <<0, 0>>) = 1

\* the grid with the cell c GENERATED
MarkGenerated(grid, c) ==
    [k \in DOMAIN grid \cup {c} |-> IF k = c THEN GENERATED ELSE grid[k]]

\* the number of placements that score more than P
Rank(grid, q, P) ==
    Cardinality({i \in 1..Len(Corners) :
        CornerScore(grid, q, Corners[i][1], Corners[i][2])
          > CornerScore(grid, q, P[1], P[2])})

\* the cardinal neighbors of q in the window of P that are not GENERATED
OpenCardinals(grid, q, P) ==
    {c \in Range(cardinal_neighbor_keys(q)) \cap Window(q, P) :
        ~IsGenerated(grid, c)}

\* C20: making a cardinal neighbor of the target inside the window of a
\* placement P GENERATED never decreases score(P) - score(P') for another
\* placement P', and never lowers the rank of P among the four placements
CornerPlacementMonotone ==
    pc = "placed" =>
        LET q == selected[1]
            grid == load_grid_from_db(db)
        IN \A P \in Range(Corners) : \A c \in OpenCardinals(grid, q, P) :
            /\ \A Q \in Range(Corners) \ {P} :
                CornerScore(MarkGenerated(grid, c), q, P[1], P[2])
                  - CornerScore(MarkGenerated(grid, c), q, Q[1], Q[2])
                >= CornerScore(grid, q, P[1], P[2])
                     - CornerScore(grid, q, Q[1], Q[2])
            /\ Rank(MarkGenerated(grid, c), q, P) <= Rank(grid, q, P)

\* a placement that a newly generated cardinal neighbor moves ahead of the
\* returned corner, while a placement sharing the neighbor keeps its distance
CornerMonotoneWitness ==
    /\ pc = "placed"
    /\ \E P \in Range(Corners) :
        \E c \in OpenCardinals(load_grid_from_db(db), selected[1], P) :
            /\ Rank(load_grid_from_db(db), selected[1], P) > 0
            /\ Rank(MarkGenerated(load_grid_from_db(db), c), selected[1], P)
                 = 0
            /\ c \notin Window(selected[1], corner)
            /\ \E Q \in Range(Corners) \ {P} : c \in Window(selected[1], Q)

(***************************************************************************)
(* Specification SpecCli: make_strip_plan.main and generate_tile_omni.main *)
(* given one arbitrary coordinate string                                   *)
(***************************************************************************)
CliChars == {"0", "1", "-", ",", " ", "x"}

RECURSIVE Strings(_)
Strings(n) ==
    IF n = 0 THEN {<<>>}
    ELSE Strings(n - 1)
         \cup {Append(t, c) : t \in {u \in Strings(n - 1) : Len(u) = n - 1},
                              c \in CliChars}

CliCoords == (0..1) \X (0..1)

\* the coordinate string given beside the arbitrary one: "0,1"
OtherArg == <<"0", ",", "1">>

InitCli ==
    /\ argv \in Strings(CliMaxLen)
    /\ dbRead = FALSE
    /\ db \in Stores(CliCoords, 1)
    /\ pc = "args"
    /\ call = NoCall /\ dryRun = FALSE
    /\ IdleRun /\ IdleAuto /\ IdleValidate /\ IdleSpiral /\ IdleLayout
    /\ IdleQueue /\ IdleServer

\* make_strip_plan.py main, lines 100-129, with argv as --top-left or as
\* --bottom-right
StripPlanMain ==
    /\ pc = "args"
    /\ \E first \in BOOLEAN :
        LET tl == parse_grid_coord(IF first THEN argv ELSE OtherArg)
            br == parse_grid_coord(IF first THEN OtherArg ELSE argv)
        IN IF tl.ok /\ br.ok
           THEN /\ dbRead' = TRUE
                /\ planFile' = make_strip_plan(load_grid_from_db(db),
                                               tl.value, br.value)
                /\ pc' = "strip_planned"
           ELSE /\ pc' = "usage_error"
                /\ UNCHANGED <<dbRead, planFile>>
    /\ UNCHANGED <<db, call, dryRun, plan, planRead, stepIdx, runLog, argv,
                   selected, errors, AutoVars, SpiralVars, LayoutVars,
                   QueueVars, ServerVars>>

\* generate_tile_omni.py main, lines 30-50, with argv as the only quadrant
\* or as the second one
TileMain ==
    /\ pc = "args"
    /\ \E alone \in BOOLEAN, dry \in BOOLEAN :
        LET quadrants == IF alone THEN <<argv>> ELSE <<OtherArg, argv>>
            coords == [i \in 1..Len(quadrants) |->
                          parse_quadrant_tuple(quadrants[i])]
        IN IF \A i \in 1..Len(quadrants) : coords[i].ok
           THEN \E r \in {run_generation_for_quadrants(db,
                              [i \in 1..Len(quadrants) |-> coords[i].value],
                              dry, "ok")} :
                    /\ db' = r.db
                    /\ call' = r.call
                    /\ dryRun' = dry
                    /\ dbRead' = TRUE
                    /\ pc' = "generated"
           ELSE /\ pc' = "usage_error"
                /\ UNCHANGED <<db, call, dryRun, dbRead>>
    /\ UNCHANGED <<argv, selected, errors, RunVars, AutoVars, SpiralVars,
                   LayoutVars, QueueVars, ServerVars>>

NextCli ==
    \/ StripPlanMain
    \/ TileMain

SpecCli == InitCli /\ [][NextCli]_vars

(***************************************************************************)
(* Properties of the command-line boundary                                 *)
(***************************************************************************)
\* exactly two comma-separated, optionally signed integers; blanks around
\* either are allowed
WellFormed(s) ==
    /\ Len(SelectSeq(s, LAMBDA c : c = ",")) = 1
    /\ \A i \in 1..Len(SplitCommas(s)) : IsIntText(SplitCommas(s)[i])

\* C21 as stated: a command given a malformed coordinate string ends in an
\* error, without having read or written the store or the plan file
MalformedRejected ==
    (pc # "args" /\ ~WellFormed(argv)) =>
        /\ pc = "usage_error"
        /\ ~dbRead
        /\ planFile = <<>>
        /\ call = NoCall

(***************************************************************************)
(* Specification SpecTemplate: create_template_image on selections of a    *)
(* 3x3 store, some rows without a render                                   *)
(***************************************************************************)
TplCoords == (0..2) \X (0..2)

\* the selections: the subsets of every 2x2 block, the rows of three, and
\* the empty one, in (y, x) order
TplSelections ==
    {SortedYX(S) : S \in UNION {SUBSET DOMAIN Block(o[1], o[2]) :
                                  o \in (0..1) \X (0..1)}}
    \cup {SortedYX({<<0, y>>, <<1, y>>, <<2, y>>}) : y \in 0..2}

InitTemplate ==
    /\ db \in Stores(TplCoords, TplMaxGen)
    /\ renders \in {TplCoords \ M : M \in SubsetsUpTo(TplCoords, TplMaxMissing)}
    /\ pc = "input"
    /\ corner = <<>> /\ layout = <<>> /\ canvas = <<>> /\ extracted = <<>>
    /\ call = NoCall /\ dryRun = FALSE
    /\ IdleValidate /\ IdleRun /\ IdleAuto /\ IdleSpiral
    /\ IdleQueue /\ IdleCli /\ IdleServer

\* create_template_image as generate_omni.py line 259 and
\* view_generations.py line 1495 call it
ComposeTemplate ==
    /\ pc = "input"
    /\ \E sel \in TplSelections :
        /\ selected' = sel
        /\ \E r \in {create_template_image(sel, load_grid_from_db(db),
                                           GridImages(db), renders)} :
            /\ canvas' = r.template
            /\ layout' = r.layout
            /\ pc' = IF r.raised = "none" THEN "composed" ELSE "no_template"
    /\ UNCHANGED <<db, call, dryRun, errors, corner, renders, extracted, RunVars,
                   AutoVars, SpiralVars, QueueVars, CliVars, ServerVars>>

NextTemplate == ComposeTemplate

SpecTemplate == InitTemplate /\ [][NextTemplate]_vars

(***************************************************************************)
(* Properties of the template canvas                                       *)
(***************************************************************************)
\* the quadrants the layout puts in cell c: none or one
QuadrantsAt(c) == {k \in DOMAIN layout : layout[k] = c}

\* C22: in the composed canvas a cell has the border exactly when it holds
\* a selected quadrant; a cell of a quadrant that is not selected shows
\* generated art when the quadrant is GENERATED and has an image and is
\* background otherwise; a cell with no quadrant, or of a selected quadrant
\* without a render, is background; only the empty selection is refused
TemplateCellsMatch ==
    /\ pc = "no_template" => selected = <<>>
    /\ pc = "composed" =>
        \A c \in Cells :
            /\ canvas[c].border <=> QuadrantsAt(c) \cap Range(selected) # {}
            /\ QuadrantsAt(c) = {} => canvas[c].art = "background"
            /\ \A k \in QuadrantsAt(c) :
                IF k \in Range(selected)
                THEN canvas[c].art =
                        (IF k \in renders THEN "render" ELSE "background")
                ELSE canvas[c].art =
                        (IF k \in DOMAIN db /\ db[k].is_generated
                            /\ db[k].generation
                         THEN "generated" ELSE "background")

\* a canvas with a bordered cell left at the background for want of a
\* render, a cell of generated art, and a cell of a quadrant with no row
TemplateWitness ==
    /\ pc = "composed"
    /\ \E c \in Cells : canvas[c].border /\ canvas[c].art = "background"
    /\ \E c \in Cells : canvas[c].art = "generated"
    /\ \E c \in Cells : QuadrantsAt(c) \cap DOMAIN db = {}
                         /\ QuadrantsAt(c) # {}

(***************************************************************************)
(* Specification SpecTiles: _spiral_order on every grid size               *)
(***************************************************************************)
\* coordsIn holds the arguments (rows, cols), rings the returned list
InitTiles ==
    /\ coordsIn \in (0..BatchMaxRows) \X (0..BatchMaxCols)
    /\ rings = <<>>
    /\ pc = "input"
    /\ db = <<>> /\ call = NoCall /\ dryRun = FALSE
    /\ IdleValidate /\ IdleRun /\ IdleAuto
    /\ IdleLayout /\ IdleQueue /\ IdleCli /\ IdleServer

\* batch_generate.py line 175
OrderTiles ==
    /\ pc = "input"
    /\ rings' = _spiral_order(coordsIn[1], coordsIn[2])
    /\ pc' = "tiles_ordered"
    /\ UNCHANGED <<db, call, dryRun, selected, errors, coordsIn, RunVars,
                   AutoVars, LayoutVars, QueueVars, CliVars, ServerVars>>

NextTiles == OrderTiles

SpecTiles == InitTiles /\ [][NextTiles]_vars

(***************************************************************************)
(* Properties of the tile order                                            *)
(***************************************************************************)
\* twice the Chebyshev distance of the i-th returned tile from the center
\* ((rows - 1) / 2, (cols - 1) / 2)
TileRing(i) ==
    Max({Abs(2 * rings[i][1] - (coordsIn[1] - 1)),
         Abs(2 * rings[i][2] - (coordsIn[2] - 1))})

\* the tile is in the center's row or in the center's column
TileAligned(i) ==
    \/ 2 * rings[i][1] = coordsIn[1] - 1
    \/ 2 * rings[i][2] = coordsIn[2] - 1

\* C23: _spiral_order returns every tile of the grid once, rings
\* non-decreasing, and within a ring the tiles in the center's row or column
\* before the others
TilesSpiralOrdered ==
    pc = "tiles_ordered" =>
        /\ Len(rings) = coordsIn[1] * coordsIn[2]
        /\ Range(rings) = (0..(coordsIn[1] - 1)) \X (0..(coordsIn[2] - 1))
        /\ \A i, j \in 1..Len(rings) :
            i < j =>
                /\ TileRing(i) <= TileRing(j)
                /\ (TileRing(i) = TileRing(j) /\ TileAligned(j))
                       => TileAligned(i)

\* a grid with a fractional center column and a ring that holds aligned and
\* diagonal tiles
TilesWitness ==
    /\ pc = "tiles_ordered"
    /\ coordsIn[2] % 2 = 0 /\ coordsIn[1] % 2 = 1
    /\ \E i, j \in 1..Len(rings) :
        /\ i < j /\ TileRing(i) = TileRing(j) /\ TileRing(i) > 1
        /\ TileAligned(i) /\ ~TileAligned(j)
        /\ rings[j][1] < rings[i][1]

(***************************************************************************)
(* Properties of the planned steps against the validator                   *)
(***************************************************************************)
\* the grid of the store with the quadrants of S marked GENERATED
GridWith(S) ==
    [k \in DOMAIN db |-> IF k \in S \/ db[k].is_generated
                         THEN GENERATED ELSE EMPTY]

\* the quadrants of the strip-plan steps before step k
EarlierStripSteps(k) ==
    UNION {Range(planFile.steps[j].quadrants) : j \in 1..(k - 1)}

\* C24 as stated: every step of a strip plan whose quadrants have rows is
\* accepted by validate_generation_config on the grid the plan was built
\* from with the quadrants of the earlier steps marked GENERATED
StripStepsAccepted ==
    pc = "strip_planned" =>
        \A k \in 1..Len(planFile.steps) :
            Range(planFile.steps[k].quadrants) \subseteq DOMAIN db =>
                validate_generation_config(planFile.steps[k].quadrants,
                    GridWith(EarlierStripSteps(k))) = <<>>

\* C25 as stated: every step planned by plan_generation_steps is accepted
\* by validate_generation_config on the grid of the store with the
\* quadrants of the earlier steps marked GENERATED
PlannedStepsAccepted ==
    pc = "planned" =>
        \A k \in 1..Len(autoSteps) :
            validate_generation_config(autoSteps[k],
                GridWith(EarlierSteps(autoSteps, k))) = <<>>

(***************************************************************************)
(* Properties of the plan file against the store                           *)
(***************************************************************************)
\* C26 as stated: every quadrant of a step that the plan file records as
\* done is GENERATED in the store
DoneStepsGenerated ==
    planFile # <<>> =>
        \A k \in 1..Len(planFile.steps) :
            planFile.steps[k].status = "done" =>
                \A q \in Range(planFile.steps[k].quadrants) :
                    q \in DOMAIN db /\ db[q].is_generated

(***************************************************************************)
(* Specification SpecPipeline: validation, layout, template and extraction *)
(* of one run_generation_for_quadrants call on a 3x3 store whose rows all  *)
(* hold a render                                                           *)
(***************************************************************************)
\* the selections: those of the template specification in (y, x) order and
\* reversed, and the same with one quadrant named twice
PipeSelections ==
    TplSelections \cup {Reverse(sel) : sel \in TplSelections}
    \cup UNION {{Append(sel, sel[i]) : i \in 1..Len(sel)} :
                   sel \in TplSelections}

InitPipeline ==
    /\ db \in Stores(TplCoords, PipeMaxGen)
    /\ renders = TplCoords
    /\ pc = "input"
    /\ corner = <<>> /\ layout = <<>> /\ canvas = <<>> /\ extracted = <<>>
    /\ call = NoCall /\ dryRun = FALSE
    /\ IdleValidate /\ IdleRun /\ IdleAuto /\ IdleSpiral
    /\ IdleQueue /\ IdleCli /\ IdleServer

\* generate_omni.py lines 239-288: validate; compose the template; crop
\* the cells of the result
RunPipeline ==
    /\ pc = "input"
    /\ \E sel \in PipeSelections :
        /\ selected' = sel
        /\ errors' = validate_generation_config(sel, load_grid_from_db(db))
        /\ IF errors' # <<>>
           THEN /\ pc' = "rejected"
                /\ UNCHANGED <<layout, canvas, extracted>>
           ELSE \E r \in {create_template_image(sel, load_grid_from_db(db),
                                                GridImages(db), renders)} :
                    /\ canvas' = r.template
                    /\ layout' = r.layout
                    /\ extracted' =
                         extract_generated_quadrants(sel, r.layout).results
                    /\ pc' = IF extract_generated_quadrants(
                                    sel, r.layout).raised = "none"
                             THEN "extracted" ELSE "key_error"
    /\ UNCHANGED <<db, call, dryRun, corner, renders, RunVars, AutoVars,
                   SpiralVars, QueueVars, CliVars, ServerVars>>

NextPipeline == RunPipeline

SpecPipeline == InitPipeline /\ [][NextPipeline]_vars

(***************************************************************************)
(* Properties of accepted selections                                       *)
(***************************************************************************)
\* four distinct quadrants that fill a 2x2 box
IsSquare(sel) ==
    /\ Len(sel) = 4
    /\ \E o \in TplCoords : Range(sel) = DOMAIN Block(o[1], o[2])

\* C27: a 2x2 selection is accepted only when no quadrant of the grid is
\* GENERATED
SquareNeedsEmptyGrid ==
    (pc \in {"rejected", "extracted", "key_error"} /\ IsSquare(selected)) =>
        (errors = <<>> => StoreGenerated = {})

\* a 2x2 selection rejected by the neighbor rule alone, the only generated
\* quadrant touching it by a corner; the selection is not in (y, x) order
SquareWitness ==
    /\ pc = "rejected"
    /\ IsSquare(selected)
    /\ selected[1] = <<1, 1>>
    /\ StoreGenerated = {<<2, 2>>}
    /\ Len(errors) = 1

\* C28: for an accepted selection the layout has four entries, a 2x2 block
\* of world coordinates mapped one-to-one onto the cells with relative
\* positions kept, every selected coordinate is in it, and the extraction
\* gives one image for each selected quadrant, each from its own cell
LayoutFitsSelection ==
    /\ pc # "key_error"
    /\ pc = "extracted" =>
        /\ Cardinality(DOMAIN layout) = 4
        /\ \E ox \in -1..2, oy \in -1..2 :
            /\ DOMAIN layout = {<<ox + dc, oy + dr>> : dc \in 0..1,
                                                       dr \in 0..1}
            /\ \A k \in DOMAIN layout : layout[k] = <<k[1] - ox, k[2] - oy>>
        /\ {layout[k] : k \in DOMAIN layout} = Cells
        /\ Range(selected) \subseteq DOMAIN layout
        /\ DOMAIN extracted = Range(selected)
        /\ \A k \in DOMAIN extracted : extracted[k] = layout[k]
        /\ \A j, k \in DOMAIN extracted :
            extracted[j] = extracted[k] => j = k

\* an accepted 1x2 selection placed in the right column of the window, the
\* left column showing the generated quadrant beside it
LayoutWitness ==
    /\ pc = "extracted"
    /\ Len(selected) = 2
    /\ selected[1][1] = selected[2][1]
    /\ \A k \in Range(selected) : layout[k][1] = 1
    /\ \E c \in Cells : canvas[c].art = "generated"

(***************************************************************************)
(* Specification SpecServer: two POST /api/generate requests handled by    *)
(* two threads of the viewer's server; a step of a thread is one access to *)
(* the store or to the generation service                                  *)
(***************************************************************************)
Handlers == {1, 2}

ServerCoords == (0..ServerMaxX) \X {0}

\* the request bodies: one quadrant, or two side by side
ServerSelections ==
    {<<c>> : c \in ServerCoords}
    \cup {<<c, <<c[1] + 1, 0>> >> : c \in (0..(ServerMaxX - 1)) \X {0}}

Handler(at, coords, saved) == [at |-> at, coords |-> coords, saved |-> saved]

InitServer ==
    /\ db \in Stores(ServerCoords, 1)
    /\ threads = [t \in Handlers |-> Handler("idle", <<>>, 0)]
    /\ pc = "serving"
    /\ call = NoCall /\ dryRun = FALSE
    /\ IdleValidate /\ IdleRun /\ IdleAuto /\ IdleSpiral /\ IdleLayout
    /\ IdleQueue /\ IdleCli

\* do_POST up to the upload: the grid is read in one query, the selection is
\* looked up and validated on that copy, the template is composed;
\* generate_omni.py lines 228-263
HandlePost(t) ==
    /\ threads[t].at = "idle"
    /\ \E coords \in ServerSelections :
        threads' = [threads EXCEPT ![t] =
            Handler(IF run_generation_for_quadrants(db, coords, TRUE, "ok")
                           .call.raised = "none"
                    THEN "validated" ELSE "failed",
                    coords, 0)]
    /\ UNCHANGED <<db, pc, call, dryRun, selected, errors, RunVars, AutoVars,
                   SpiralVars, LayoutVars, QueueVars, CliVars>>

\* the upload, the service call and the download: lines 270-285
ServiceReturns(t) ==
    /\ threads[t].at = "validated"
    /\ \E outcome \in {"ok", "api_error"} :
        threads' = [threads EXCEPT
            ![t].at = IF outcome = "ok" THEN "saving" ELSE "failed"]
    /\ UNCHANGED <<db, pc, call, dryRun, selected, errors, RunVars, AutoVars,
                   SpiralVars, LayoutVars, QueueVars, CliVars>>

\* one pass of the loop of lines 291-293: save_generation_to_db opens its
\* own connection and commits
SaveNext(t) ==
    /\ threads[t].at = "saving"
    /\ db' = save_generation_to_db(db, threads[t].coords[threads[t].saved + 1])
    /\ threads' = [threads EXCEPT
            ![t].saved = @ + 1,
            ![t].at = IF threads[t].saved + 1 = Len(threads[t].coords)
                      THEN "done" ELSE "saving"]
    /\ UNCHANGED <<pc, call, dryRun, selected, errors, RunVars, AutoVars,
                   SpiralVars, LayoutVars, QueueVars, CliVars>>

NextServer ==
    \E t \in Handlers :
        \/ HandlePost(t)
        \/ ServiceReturns(t)
        \/ SaveNext(t)

SpecServer == InitServer /\ [][NextServer]_vars

(***************************************************************************)
(* Properties of concurrent requests                                       *)
(***************************************************************************)
\* the quadrants handler t has written as generated
WrittenBy(t) == Range(SubSeq(threads[t].coords, 1, threads[t].saved))

\* C29 as stated: of two requests that name the same quadrant at most one
\* gets past validation, and no quadrant is written as generated by both
GeneratedOnce ==
    \A s, t \in Handlers :
        s # t =>
            /\ WrittenBy(s) \cap WrittenBy(t) = {}
            /\ (Range(threads[s].coords) \cap Range(threads[t].coords) # {}
                    => \/ threads[s].at \notin {"validated", "saving", "done"}
                       \/ threads[t].at \notin {"validated", "saving", "done"})

(***************************************************************************)
(* Specification SpecQueueLive: the viewer page where every request to the *)
(* server, POST /api/generate and the reload of the quadrants alike,       *)
(* eventually returns or fails; clicks come or not                         *)
(***************************************************************************)
SpecQueueLive ==
    /\ InitQueue
    /\ [][NextQueue]_vars
    /\ WF_vars(Response)
    /\ WF_vars(Reloaded)

\* the statuses of the item with this id, none when it is not in the queue
StatusOf(id) == {queue[i].status : i \in {j \in 1..Len(queue) :
                                            queue[j].id = id}}

\* C30: an item in the queue is eventually done or in error, or was removed
\* by Clear Queue; and whenever an item is queued and none is processing, a
\* processQueue call is waiting at an await and will pick the item up
QueueProgress ==
    /\ \A id \in 1..QueueMaxItems :
        (StatusOf(id) # {}) ~>
            (StatusOf(id) \subseteq {"done", "error"})
    /\ []((FirstWith(queue, "queued") # 0
            /\ FirstWith(queue, "processing") = 0) => tasks # {})

\* the page at rest after an item waited behind another one and both were
\* settled, one of them in error, while a third was removed
QueueProgressWitness ==
    /\ tasks = {}
    /\ Len(sent) >= 2
    /\ \A i \in 1..Len(queue) : queue[i].status \in {"done", "error"}
    /\ \E i \in 1..Len(queue) : queue[i].status = "error" /\ i < Len(queue)
    /\ Len(queue) < nextQueueId - 1

====
